---------------------------- MODULE Spec2Model ----------------------------
(***************************************************************************)
(* A model of the WMI CIM repository reader, scripts/wmi_repository.py:    *)
(* the mapping files (MappingFile), the index binary-tree file             *)
(* (IndexBinaryTreePage, IndexBinaryTreeFile), the objects data file       *)
(* (ObjectsDataPage, ObjectsDataFile) and CIMRepository.                   *)
(*                                                                         *)
(* Numbers.  TLC's integers are 32 bit signed, so a page number is kept    *)
(* in an 18 bit word: the all-ones word UNAVAILABLE stands for the file    *)
(* format's 0xffffffff, and page_number * PAGE_SIZE is computed as the     *)
(* code computes it without leaving TLC's range.  Python's own integers    *)
(* are unbounded, so nothing in the code wraps.                            *)
(*                                                                         *)
(* Bytes.  A mapping file is a sequence of 32 bit little-endian words      *)
(* plus a number of trailing bytes that do not make up a word; every read  *)
(* of the code is word aligned.  The payload of the objects data file is   *)
(* kept as extents <<file offset, length>>: what the code does with the    *)
(* bytes depends only on where they are and how many there are.  A page    *)
(* of the index binary-tree file is read byte by byte (SpecPage), a page   *)
(* of object descriptors 16 byte unit by unit (SpecDesc).  Of an object    *)
(* record the model keeps the members that decide what Read does.          *)
(***************************************************************************)
EXTENDS Integers, Sequences, FiniteSets, TLC

VARIABLES
  \* MappingFile (one *.map file and the data file read through it)
  mfile,        \* the words of the file
  mtail,        \* bytes after the last whole word
  mstate,       \* "new", "open" (Open returned) or "ParseError" (Open raised)
  mpos,         \* MappingFile._file_object.tell()
  mappings,     \* MappingFile.mappings
  data_size,    \* MappingFile.data_size
  dfile,        \* the file read through the mappings: its kind and _file_size
  lookup,       \* what the last GetMappedPage did
  \* IndexBinaryTreeFile and CIMRepository.GetKeys
  ipages,            \* Index.btr: physical page number -> the page's content
  ifile_size,        \* IndexBinaryTreeFile._file_size
  imappings,         \* mappings of the index mapping file
  first_mapped_page, \* IndexBinaryTreeFile._first_mapped_page
  root_page,         \* IndexBinaryTreeFile._root_page
  kstack,            \* the active _GetKeysFromIndexPage generators, outermost first
  yielded,           \* the keys GetKeys has yielded so far
  kstate,            \* "new", "running", "done" or the exception raised
  ckey_values,       \* the "." separated values the key's last segment was built of
  ckey,              \* the key
  ckey_result,       \* what _GetKeyValues(ckey) returned
  \* ObjectsDataFile.GetObjectRecordByKey
  opages,            \* Objects.data: physical page number -> its object descriptors
  ofile_size,        \* ObjectsDataFile._file_size
  omappings,         \* mappings of the objects mapping file
  rkey,              \* the key GetObjectRecordByKey is called with
  rstate,            \* "new", "loop", "record", "None" or the exception raised
  rlocals,           \* the local variables of GetObjectRecordByKey
  rfetched,          \* the GetMappedPage calls of the call, in order
  object_record,     \* the ObjectRecord returned
  \* IndexBinaryTreePage.ReadPage on the bytes of a page
  pdesc,             \* what the page was written from
  pbytes,            \* the first bytes of Index.btr, 0 bytes follow them
  pfile_size,        \* the size of Index.btr
  ppage,             \* what ReadPage did: the page read or the exception
  \* ObjectsDataPage.ReadPage on the descriptors of Objects.data
  oslots,            \* the first 16 byte units of Objects.data, 0 bytes follow
  oslots_size,       \* the size of Objects.data
  ocall,             \* the arguments of ReadPage: file_offset and data_page
  opage,             \* what ReadPage did
  \* ObjectRecord.Read
  orecord,           \* the ObjectRecord: data_type, data, debug
  oread,             \* what Read did
  \* CIMRepository.Open and CIMRepository.Close
  crepository,       \* the CIMRepository: _debug and its four files
  cobjects,          \* the file objects (MappingFile, ...) created so far
  ccalls,            \* the calls of Open and Close made, and their outcome
  \* CIMRepository.Open: the files of the directory
  gdirectory,        \* the names of the files in the directory
  gplatform,         \* "posix" or "nt": os.path.normcase
  gopen,             \* what Open did
  \* IndexBinaryTreeFile: calls that return a page
  acalls,            \* the calls made, the reads of each and what it returned
  \* ObjectsDataFile: calls of GetObjectRecordByKey on one file object
  dpos,              \* ObjectsDataFile._file_object.tell()
  dnegative_read,    \* what read(n) does for n < -1 in the Python that runs
  dcalls,            \* the calls made: the key and what was returned
  \* ReadPage called again on a page object, _ReadPage called again
  tkind,             \* whose method is called: a page object's or a file's
  tnegative_read,    \* what read(n) does for n < -1 in the Python that runs
  tcalls,            \* the number of calls made
  tfirst             \* the page after the first call

keyVars == <<ckey_values, ckey, ckey_result>>

recVars == <<opages, ofile_size, omappings, rkey, rstate, rlocals, rfetched,
             object_record>>

pageVars == <<pdesc, pbytes, pfile_size, ppage>>

descVars == <<oslots, oslots_size, ocall, opage>>

readVars == <<orecord, oread>>

closeVars == <<crepository, cobjects, ccalls>>

globVars == <<gdirectory, gplatform, gopen>>

accessVars == <<acalls>>

againVars == <<dpos, dnegative_read, dcalls>>

twiceVars == <<tkind, tnegative_read, tcalls, tfirst>>

keysVars == <<ipages, ifile_size, imappings, first_mapped_page, root_page,
              kstack, yielded, kstate>>

mapVars == <<mfile, mtail, mstate, mpos, mappings, data_size, dfile, lookup>>

vars == <<mapVars, keysVars, keyVars, recVars, pageVars, descVars, readVars,
  closeVars, globVars, accessVars, againVars, twiceVars>>

notMapVars == <<keysVars, keyVars, recVars, pageVars, descVars, readVars,
  closeVars, globVars, accessVars, againVars, twiceVars>>

notKeysVars == <<mapVars, keyVars, recVars, pageVars, descVars, readVars,
  closeVars, globVars, accessVars, againVars, twiceVars>>

notKeyVars == <<mapVars, keysVars, recVars, pageVars, descVars, readVars,
  closeVars, globVars, accessVars, againVars, twiceVars>>

notRecVars == <<mapVars, keysVars, keyVars, pageVars, descVars, readVars,
  closeVars, globVars, accessVars, againVars, twiceVars>>

notPageVars == <<mapVars, keysVars, keyVars, recVars, descVars, readVars,
  closeVars, globVars, accessVars, againVars, twiceVars>>

notDescVars == <<mapVars, keysVars, keyVars, recVars, pageVars, readVars,
  closeVars, globVars, accessVars, againVars, twiceVars>>

notReadVars == <<mapVars, keysVars, keyVars, recVars, pageVars, descVars,
  closeVars, globVars, accessVars, againVars, twiceVars>>

notCloseVars == <<mapVars, keysVars, keyVars, recVars, pageVars, descVars,
  readVars, globVars, accessVars, againVars, twiceVars>>

notGlobVars == <<mapVars, keysVars, keyVars, recVars, pageVars, descVars,
  readVars, closeVars, accessVars, againVars, twiceVars>>

\* The calls of SpecAccess are made on the IndexBinaryTreeFile of keysVars.
notAccessVars == <<mapVars, keyVars, recVars, pageVars, descVars, readVars,
  closeVars, globVars, againVars, twiceVars>>

\* The calls of SpecAgain are made on the ObjectsDataFile of recVars.
notAgainVars == <<mapVars, keysVars, keyVars, pageVars, descVars, readVars,
  closeVars, globVars, accessVars, twiceVars>>

\* The calls of SpecTwice are made on the pages of pageVars and descVars.
notTwiceVars == <<mapVars, keysVars, keyVars, recVars, readVars, closeVars,
  globVars, accessVars, againVars>>

-----------------------------------------------------------------------------
(* Program constants *)

PAGE_SIZE == 8192

\* 0xffffffff in the file format: the all-ones page number (see Numbers).
UNAVAILABLE == 262143

HEADER_SIGNATURE == 43981

FOOTER_SIGNATURE == 56506

UINT32LE_SIZE == 4

FILE_HEADER_SIZE == 12

FILE_FOOTER_SIZE == 4

\* ObjectsDataPage._OBJECT_DESCRIPTOR_SIZE
OBJECT_DESCRIPTOR_SIZE == 16

\* IndexBinaryTreePage._UINT16LE_SIZE
UINT16LE_SIZE == 2

\* IndexBinaryTreePage._PAGE_HEADER_SIZE: five 32 bit members
PAGE_HEADER_SIZE == 20

\* IndexBinaryTreePage._PAGE_TYPES: 0xaccc is active, 0xaddd is administrative.
PAGE_TYPE_ACTIVE == 44236

PAGE_TYPE_ADMINISTRATIVE == 44509

-----------------------------------------------------------------------------
(* Bounds *)

\* Words of a generated mapping file after its 12 byte header.
MaxBodyWords == 5

\* Keys of a generated index page.
MaxKeys == 2

\* "." separated values of the last segment of a generated key.
MaxKeyValues == 5

\* Nested _GetKeysFromIndexPage generators: a page graph with a cycle nests
\* them without end, the model stops descending at this depth.
MaxDepth == 3

\* Calls of Open and Close made on one CIMRepository.
MaxCalls == 3

-----------------------------------------------------------------------------
(* Helpers *)

Min(a, b) == IF a < b THEN a ELSE b

Range(s) == {s[i] : i \in 1..Len(s)}

SeqsUpTo(S, n) == UNION {[1..k -> S] : k \in 0..n}

NoLookup == [op |-> "none"]

-----------------------------------------------------------------------------
(* file objects *)

\* The size in bytes of a file of whole words ws and tail trailing bytes.
FileBytes(ws, tail) == 4 * Len(ws) + tail

\* len(file_object.read(size)) at position pos: a read never goes past the
\* end of the file and returns nothing at or behind it.
FileRead(ws, tail, pos, size) ==
  IF pos >= FileBytes(ws, tail) THEN 0 ELSE Min(size, FileBytes(ws, tail) - pos)

\* The n words that start at the word aligned byte offset pos.
WordsAt(ws, pos, n) == [i \in 1..n |-> ws[(pos \div 4) + i]]

-----------------------------------------------------------------------------
(* BinaryDataFormat and MappingFile *)

\* BinaryDataFormat._ReadStructure: seek, read data_size bytes, fail on a
\* short read, else map the bytes to the structure's words.
ReadStructure(ws, tail, file_offset, size) ==
  LET got == FileRead(ws, tail, file_offset, size)
  IN  IF got # size
        THEN [ok |-> FALSE, pos |-> file_offset + got, words |-> <<>>]
        ELSE [ok |-> TRUE, pos |-> file_offset + size,
              words |-> WordsAt(ws, file_offset, size \div 4)]

ReadFileHeader_NoSignatureCheck(ws, tail, file_offset) ==
  ReadStructure(ws, tail, file_offset, FILE_HEADER_SIZE)

\* MappingFile._ReadFileHeader: signature, format_version, number_of_pages.
ReadFileHeader(ws, tail, file_offset) ==
  LET s == ReadStructure(ws, tail, file_offset, FILE_HEADER_SIZE)
  IN  IF ~s.ok THEN s
      ELSE IF s.words[1] # HEADER_SIGNATURE THEN [s EXCEPT !.ok = FALSE]
      ELSE s

ReadPageNumbersTable_Reversed(ws, tail, pos) ==
  LET got == FileRead(ws, tail, pos, UINT32LE_SIZE)
  IN  IF got # UINT32LE_SIZE
        THEN [ok |-> FALSE, pos |-> pos + got, page_numbers |-> <<>>]
        ELSE
          LET n == WordsAt(ws, pos, 1)[1]
              size == n * UINT32LE_SIZE
              got2 == FileRead(ws, tail, pos + UINT32LE_SIZE, size)
          IN  IF got2 # size
                THEN [ok |-> FALSE, pos |-> pos + UINT32LE_SIZE + got2,
                      page_numbers |-> <<>>]
                ELSE [ok |-> TRUE, pos |-> pos + UINT32LE_SIZE + size,
                      page_numbers |->
                        [i \in 1..n |->
                           WordsAt(ws, pos + UINT32LE_SIZE, n)[n + 1 - i]]]

\* MappingFile._ReadPageNumbersTable: a 32 bit number of entries, then that
\* many 32 bit page numbers; a short read of either raises ParseError.
ReadPageNumbersTable(ws, tail, pos) ==
  LET got == FileRead(ws, tail, pos, UINT32LE_SIZE)
  IN  IF got # UINT32LE_SIZE
        THEN [ok |-> FALSE, pos |-> pos + got, page_numbers |-> <<>>]
        ELSE
          LET number_of_entries == WordsAt(ws, pos, 1)[1]
          IN  IF number_of_entries = 0
                THEN [ok |-> TRUE, pos |-> pos + UINT32LE_SIZE,
                      page_numbers |-> <<>>]
                ELSE
                  LET entries_data_size == number_of_entries * UINT32LE_SIZE
                      got2 == FileRead(ws, tail, pos + UINT32LE_SIZE,
                                       entries_data_size)
                  IN  IF got2 # entries_data_size
                        THEN [ok |-> FALSE,
                              pos |-> pos + UINT32LE_SIZE + got2,
                              page_numbers |-> <<>>]
                        ELSE [ok |-> TRUE,
                              pos |-> pos + UINT32LE_SIZE + entries_data_size,
                              page_numbers |->
                                WordsAt(ws, pos + UINT32LE_SIZE,
                                        number_of_entries)]

\* The table read with the header's number_of_pages as its number of entries:
\* the entry-count word is skipped and number_of_pages entries follow.
ReadMappings_NumberOfPages(ws, tail, pos) ==
  LET number_of_pages == IF Len(ws) >= 3 THEN ws[3] ELSE 0
      c == ReadStructure(ws, tail, pos, 4)
      size == number_of_pages * 4
      got == FileRead(ws, tail, c.pos, size)
  IN  IF ~c.ok THEN [ok |-> FALSE, pos |-> c.pos, page_numbers |-> <<>>]
      ELSE IF got # size
        THEN [ok |-> FALSE, pos |-> c.pos + got, page_numbers |-> <<>>]
      ELSE [ok |-> TRUE, pos |-> c.pos + size,
            page_numbers |-> WordsAt(ws, c.pos, number_of_pages)]

\* MappingFile._ReadMappings: the table at the current position.
ReadMappings(ws, tail, pos) == ReadPageNumbersTable(ws, tail, pos)

\* MappingFile._ReadUnknownEntries: a second table, read and dropped.
ReadUnknownEntries(ws, tail, pos) == ReadPageNumbersTable(ws, tail, pos)

ReadFileFooter_NoSignatureCheck(ws, tail, pos) ==
  ReadStructure(ws, tail, pos, FILE_FOOTER_SIZE)

\* MappingFile._ReadFileFooter: the signature at the current position.
ReadFileFooter(ws, tail, pos) ==
  LET s == ReadStructure(ws, tail, pos, FILE_FOOTER_SIZE)
  IN  IF ~s.ok THEN s
      ELSE IF s.words[1] # FOOTER_SIGNATURE THEN [s EXCEPT !.ok = FALSE]
      ELSE s

\* MappingFile.Open after the file was opened: header, mappings, unknown
\* entries, footer, data_size; the first step that raises ends it, with the
\* attributes as assigned up to then.
MappingFileRead(ws, tail, file_offset) ==
  LET h == ReadFileHeader(ws, tail, file_offset)
      m == ReadMappings(ws, tail, h.pos)
      u == ReadUnknownEntries(ws, tail, m.pos)
      f == ReadFileFooter(ws, tail, u.pos)
  IN  IF ~h.ok THEN
        [ok |-> FALSE, pos |-> h.pos, mappings |-> <<>>, data_size |-> 0]
      ELSE IF ~m.ok THEN
        [ok |-> FALSE, pos |-> m.pos, mappings |-> <<>>, data_size |-> 0]
      ELSE IF ~u.ok THEN
        [ok |-> FALSE, pos |-> u.pos, mappings |-> m.page_numbers,
         data_size |-> 0]
      ELSE IF ~f.ok THEN
        [ok |-> FALSE, pos |-> f.pos, mappings |-> m.page_numbers,
         data_size |-> 0]
      ELSE
        [ok |-> TRUE, pos |-> f.pos, mappings |-> m.page_numbers,
         data_size |-> f.pos - file_offset]

-----------------------------------------------------------------------------
(* Page retrieval through the mappings *)

GetPage_OffByOne(file_size, page_number) ==
  LET file_offset == page_number * PAGE_SIZE
  IN  IF file_offset > file_size
        THEN [outcome |-> "None"]
        ELSE [outcome |-> "page", page_offset |-> file_offset]

GetPage_AlwaysRead(file_size, page_number) ==
  [outcome |-> "page", page_offset |-> page_number * PAGE_SIZE]

\* IndexBinaryTreeFile._GetPage and ObjectsDataFile._GetPage: no page at or
\* behind the end of the file, else a new page object read at the offset.
GetPage(file_size, page_number) ==
  LET file_offset == page_number * PAGE_SIZE
  IN  IF file_offset >= file_size
        THEN [outcome |-> "None"]
        ELSE [outcome |-> "page", page_offset |-> file_offset]

\* IndexBinaryTreeFile.GetMappedPage and ObjectsDataFile.GetMappedPage:
\* mappings[page_number] counts from the end for a negative page_number and
\* raises IndexError out of range.
GetMappedPage(table, file_size, page_number) ==
  IF page_number >= Len(table) \/ page_number < 0 - Len(table)
    THEN [outcome |-> "IndexError"]
  ELSE IF page_number < 0
    THEN GetPage(file_size, table[Len(table) + page_number + 1])
    ELSE GetPage(file_size, table[page_number + 1])

-----------------------------------------------------------------------------
(* Specification SpecMap: one mapping file is opened, then the file it     *)
(* maps (Index.btr or Objects.data) is opened and pages are retrieved.     *)

\* The 12 byte headers of the generated files: a right and a wrong
\* signature, format version 1, two values of number_of_pages.
MapHeaders ==
  {<<sig, 1, n>> : sig \in {HEADER_SIGNATURE, FOOTER_SIGNATURE}, n \in {0, 2}}

\* The words that follow the header: entry counts, page numbers, a footer.
MapBodyWords == {0, 1, 2, FOOTER_SIGNATURE, UNAVAILABLE}

\* The generated files: every header followed by every body, and the files
\* that end inside the header.
MapFiles ==
  {h \o b : h \in MapHeaders, b \in SeqsUpTo(MapBodyWords, MaxBodyWords)}
    \cup {<<>>, <<HEADER_SIGNATURE>>, <<HEADER_SIGNATURE, 1>>}

\* Bytes after the last whole word of a generated file.
MapTails == {0, 2}

\* st_size of the generated Index.btr and Objects.data files.
DataFileSizes == {0, PAGE_SIZE, PAGE_SIZE + 1, 2 * PAGE_SIZE, 3 * PAGE_SIZE}

MapIdle ==
  /\ mfile = <<>>
  /\ mtail = 0
  /\ mstate = "idle"
  /\ mpos = 0
  /\ mappings = <<>>
  /\ data_size = 0
  /\ dfile = [kind |-> "none"]
  /\ lookup = NoLookup

\* MappingFile.__init__ on a generated file.
InitMap ==
  /\ mfile \in MapFiles
  /\ mtail \in MapTails
  /\ mstate = "new"
  /\ mpos = 0
  /\ mappings = <<>>
  /\ data_size = 0
  /\ dfile = [kind |-> "none"]
  /\ lookup = NoLookup

\* MappingFile.Open(filename), file_offset 0 as CIMRepository.Open calls it.
MappingFileOpen ==
  /\ mstate = "new"
  /\ LET r == MappingFileRead(mfile, mtail, 0)
     IN  /\ mstate' = IF r.ok THEN "open" ELSE "ParseError"
         /\ mpos' = r.pos
         /\ mappings' = r.mappings
         /\ data_size' = r.data_size
  /\ UNCHANGED <<mfile, mtail, dfile, lookup>>
  /\ UNCHANGED notMapVars

\* IndexBinaryTreeFile.Open and ObjectsDataFile.Open: _file_size is the
\* file's st_size.  CIMRepository.Open opens the file after its mapping
\* file, so only when MappingFile.Open returned.
DataFileOpen(kind, st_size) ==
  /\ mstate = "open"
  /\ dfile.kind = "none"
  /\ dfile' = [kind |-> kind, file_size |-> st_size]
  /\ UNCHANGED <<mfile, mtail, mstate, mpos, mappings, data_size, lookup>>
  /\ UNCHANGED notMapVars

\* IndexBinaryTreeFile.GetMappedPage(page_number) or
\* ObjectsDataFile.GetMappedPage(page_number) on the open file.
FileGetMappedPage(page_number) ==
  /\ dfile.kind # "none"
  /\ LET r == GetMappedPage(mappings, dfile.file_size, page_number)
     IN  lookup' = [op |-> dfile.kind, page_number |-> page_number,
                    result |-> r]
  /\ UNCHANGED <<mfile, mtail, mstate, mpos, mappings, data_size, dfile>>
  /\ UNCHANGED notMapVars

NextMap ==
  \/ MappingFileOpen
  \/ \E kind \in {"index", "objects"}, st_size \in DataFileSizes :
       DataFileOpen(kind, st_size)
  \/ \E page_number \in 0..Len(mappings) : FileGetMappedPage(page_number)


-----------------------------------------------------------------------------
(* Claims about MappingFile and page retrieval, under SpecMap *)

\* The file holds a header with the right signature, the mappings table and
\* the unknown entries table in full, and the footer signature after them.
MapWellFormed ==
  /\ Len(mfile) >= 4
  /\ mfile[1] = HEADER_SIGNATURE
  /\ LET n == mfile[4]
     IN  /\ Len(mfile) >= 5 + n
         /\ LET u == mfile[5 + n]
            IN  /\ Len(mfile) >= 6 + n + u
                /\ mfile[6 + n + u] = FOOTER_SIGNATURE

\* C8: MappingFile.Open returns only for a file with the header signature
\* 0x0000abcd, both tables present in full and the footer signature
\* 0x0000dcba; for every other file it raises ParseError.
C8_OpenOnlyIfWellFormed ==
  /\ mstate = "open" => MapWellFormed
  /\ (mstate # "new" /\ ~MapWellFormed) => mstate = "ParseError"

C8_Witness ==
  /\ mstate = "open"
  /\ Len(mappings) = 2
  /\ mpos < FileBytes(mfile, mtail)

NumberOfPages == mfile[3]

NumberOfEntries == mfile[4]

NumberOfUnknownEntries == mfile[5 + NumberOfEntries]

C29_EntryCountNotNumberOfPages ==
  mstate = "open" =>
    /\ Len(mappings) = NumberOfEntries
    /\ \A i \in 1..Len(mappings) : mappings[i] = mfile[4 + i]
    /\ data_size =
         12 + 4 + 4 * Len(mappings) + 4 + 4 * NumberOfUnknownEntries + 4
    /\ mpos = data_size

C29_Witness ==
  /\ mstate = "open"
  /\ Len(mappings) = 1
  /\ NumberOfPages = 2
  /\ NumberOfUnknownEntries = 1
  /\ data_size = 32

C29_WitnessFewerPages ==
  /\ mstate = "open"
  /\ Len(mappings) = 2
  /\ NumberOfPages = 0

\* C10: GetMappedPage of an in-range page number returns None or a page
\* read at mappings[page_number] * 8192, an offset below the file size.
C10_PageWithinFile ==
  (lookup # NoLookup /\ lookup.page_number < Len(mappings)) =>
     \/ lookup.result.outcome = "None"
     \/ /\ lookup.result.outcome = "page"
        /\ lookup.result.page_offset =
             mappings[lookup.page_number + 1] * PAGE_SIZE
        /\ lookup.result.page_offset < dfile.file_size

C10_Witness ==
  /\ lookup # NoLookup
  /\ lookup.page_number < Len(mappings)
  /\ lookup.result.outcome = "page"
  /\ lookup.result.page_offset + PAGE_SIZE = dfile.file_size
  /\ lookup.result.page_offset > 0

-----------------------------------------------------------------------------
(* IndexBinaryTreePage and IndexBinaryTreeFile *)

ReadSubPages_KeepAll(entries) == entries

RECURSIVE ReadSubPages(_)
\* IndexBinaryTreePage._ReadSubPages: of the number_of_keys + 1 entries of
\* the sub pages array, those that are neither 0 nor 0xffffffff, in order.
ReadSubPages(entries) ==
  IF entries = <<>> THEN <<>>
  ELSE IF Head(entries) \in {0, UNAVAILABLE}
    THEN ReadSubPages(Tail(entries))
    ELSE <<Head(entries)>> \o ReadSubPages(Tail(entries))

\* IndexBinaryTreeFile._ReadPage: a new IndexBinaryTreePage read at
\* file_offset; of IndexBinaryTreePage.ReadPage the header fields, the sub
\* pages and the keys built from the page's key segments and values.
ReadIndexPage(pages, file_offset) ==
  LET content == pages[file_offset \div PAGE_SIZE]
  IN  [page_offset |-> file_offset,
       page_type |-> content.page_type,
       root_page_number |-> content.root_page_number,
       keys |-> content.keys,
       sub_pages |-> ReadSubPages(content.entries)]

\* IndexBinaryTreeFile._GetPage with the page it returns.
IndexGetPage(pages, file_size, page_number) ==
  LET r == GetPage(file_size, page_number)
  IN  IF r.outcome = "page"
        THEN [outcome |-> "page", page |-> ReadIndexPage(pages, r.page_offset)]
        ELSE r

\* IndexBinaryTreeFile.GetMappedPage with the page it returns.
IndexGetMappedPage(pages, table, file_size, page_number) ==
  LET r == GetMappedPage(table, file_size, page_number)
  IN  IF r.outcome = "page"
        THEN [outcome |-> "page", page |-> ReadIndexPage(pages, r.page_offset)]
        ELSE r

NoPage == [outcome |-> "None"]

GetFirstMappedPage_AnyPageType(pages, table, file_size, cached) ==
  IF cached # NoPage THEN cached
  ELSE IF Len(table) = 0 THEN [outcome |-> "IndexError"]
  ELSE
    LET index_page == IndexGetPage(pages, file_size, table[1])
    IN  IF index_page.outcome # "page" THEN NoPage ELSE index_page

\* IndexBinaryTreeFile.GetFirstMappedPage: the cached page, else the page
\* at mappings[0] if it can be read and is administrative.
GetFirstMappedPage(pages, table, file_size, cached) ==
  IF cached # NoPage THEN cached
  ELSE IF Len(table) = 0 THEN [outcome |-> "IndexError"]
  ELSE
    LET index_page == IndexGetPage(pages, file_size, table[1])
    IN  IF index_page.outcome # "page" THEN NoPage
        ELSE IF index_page.page.page_type # PAGE_TYPE_ADMINISTRATIVE THEN NoPage
        ELSE index_page

\* IndexBinaryTreeFile.GetRootPage: the cached page, else the page at
\* mappings[first_mapped_page.root_page_number].  The result names the
\* first mapped page too, which GetFirstMappedPage caches on the way.
GetRootPage(pages, table, file_size, cached_first, cached_root) ==
  IF cached_root # NoPage THEN [first |-> cached_first, root |-> cached_root]
  ELSE
    LET first == GetFirstMappedPage(pages, table, file_size, cached_first)
    IN  IF first.outcome = "IndexError"
          THEN [first |-> cached_first, root |-> first]
        ELSE IF first.outcome # "page" THEN [first |-> first, root |-> NoPage]
        ELSE IF first.page.root_page_number >= Len(table)
          THEN [first |-> first, root |-> [outcome |-> "IndexError"]]
        ELSE [first |-> first,
              root |-> IndexGetPage(pages, file_size,
                                    table[first.page.root_page_number + 1])]

-----------------------------------------------------------------------------
(* CIMRepository.GetKeys: the generator, a frame per active                *)
(* _GetKeysFromIndexPage, ki and si the next key and the next sub page.    *)

Frame(index_page) == [page |-> index_page, ki |-> 1, si |-> 1]

Top == kstack[Len(kstack)]

\* GetKeys up to its first yield: GetRootPage, then iterating
\* _GetKeysFromIndexPage(index_page), which raises AttributeError on
\* index_page.keys when index_page is None.
GetKeys ==
  /\ kstate = "new"
  /\ LET r == GetRootPage(ipages, imappings, ifile_size,
                          first_mapped_page, root_page)
     IN  /\ first_mapped_page' = r.first
         /\ root_page' = IF r.root.outcome = "page" THEN r.root ELSE root_page
         /\ IF r.root.outcome = "page"
              THEN /\ kstack' = <<Frame(r.root.page)>>
                   /\ kstate' = "running"
              ELSE /\ kstack' = <<>>
                   /\ kstate' = IF r.root.outcome = "IndexError"
                                  THEN "IndexError" ELSE "AttributeError"
  /\ UNCHANGED <<ipages, ifile_size, imappings, yielded>>
  /\ UNCHANGED notKeysVars

\* for key in index_page.keys: yield key
YieldKey ==
  /\ kstate = "running"
  /\ Top.ki <= Len(Top.page.keys)
  /\ yielded' = Append(yielded, Top.page.keys[Top.ki])
  /\ kstack' = [kstack EXCEPT ![Len(kstack)].ki = @ + 1]
  /\ UNCHANGED <<ipages, ifile_size, imappings, first_mapped_page, root_page,
                 kstate>>
  /\ UNCHANGED notKeysVars

VisitSubPage_BeforeKeys ==
  /\ kstate = "running"
  /\ Top.si <= Len(Top.page.sub_pages)
  /\ Len(kstack) < MaxDepth
  /\ LET r == IndexGetMappedPage(ipages, imappings, ifile_size,
                                 Top.page.sub_pages[Top.si])
         advanced == [kstack EXCEPT ![Len(kstack)].si = @ + 1]
     IN  IF r.outcome = "page"
           THEN /\ kstack' = Append(advanced, Frame(r.page))
                /\ kstate' = "running"
           ELSE /\ kstack' = advanced
                /\ kstate' = IF r.outcome = "IndexError"
                               THEN "IndexError" ELSE "AttributeError"
  /\ UNCHANGED <<ipages, ifile_size, imappings, first_mapped_page, root_page,
                 yielded>>
  /\ UNCHANGED notKeysVars

VisitSubPage_OncePerPage ==
  /\ kstate = "running"
  /\ Top.ki > Len(Top.page.keys)
  /\ Top.si <= Len(Top.page.sub_pages)
  /\ Len(kstack) < MaxDepth
  /\ LET r == IndexGetMappedPage(ipages, imappings, ifile_size,
                                 Top.page.sub_pages[Top.si])
         advanced == [kstack EXCEPT ![Len(kstack)].si = @ + 1]
         visited == r.outcome = "page"
                      /\ \E i \in 1..Len(yielded) : yielded[i] \in Range(r.page.keys)
     IN  IF r.outcome = "page"
           THEN /\ kstack' = IF visited THEN advanced
                             ELSE Append(advanced, Frame(r.page))
                /\ kstate' = "running"
           ELSE /\ kstack' = advanced
                /\ kstate' = IF r.outcome = "IndexError"
                               THEN "IndexError" ELSE "AttributeError"
  /\ UNCHANGED <<ipages, ifile_size, imappings, first_mapped_page, root_page,
                 yielded>>
  /\ UNCHANGED notKeysVars

\* for sub_page_number in index_page.sub_pages: GetMappedPage, then
\* iterating _GetKeysFromIndexPage(sub_index_page).
VisitSubPage ==
  /\ kstate = "running"
  /\ Top.ki > Len(Top.page.keys)
  /\ Top.si <= Len(Top.page.sub_pages)
  /\ Len(kstack) < MaxDepth
  /\ LET r == IndexGetMappedPage(ipages, imappings, ifile_size,
                                 Top.page.sub_pages[Top.si])
         advanced == [kstack EXCEPT ![Len(kstack)].si = @ + 1]
     IN  IF r.outcome = "page"
           THEN /\ kstack' = Append(advanced, Frame(r.page))
                /\ kstate' = "running"
           ELSE /\ kstack' = advanced
                /\ kstate' = IF r.outcome = "IndexError"
                               THEN "IndexError" ELSE "AttributeError"
  /\ UNCHANGED <<ipages, ifile_size, imappings, first_mapped_page, root_page,
                 yielded>>
  /\ UNCHANGED notKeysVars

\* The end of a _GetKeysFromIndexPage generator: its caller goes on, and
\* GetKeys is exhausted when the outermost one ends.
ReturnFromPage ==
  /\ kstate = "running"
  /\ Top.ki > Len(Top.page.keys)
  /\ Top.si > Len(Top.page.sub_pages)
  /\ kstack' = SubSeq(kstack, 1, Len(kstack) - 1)
  /\ kstate' = IF Len(kstack) = 1 THEN "done" ELSE "running"
  /\ UNCHANGED <<ipages, ifile_size, imappings, first_mapped_page, root_page,
                 yielded>>
  /\ UNCHANGED notKeysVars


-----------------------------------------------------------------------------
(* Specification SpecKeys: GetKeys is iterated over a generated Index.btr  *)
(* of three pages, page 0 the first mapped page.                           *)

\* The entries of a generated sub pages array: no child (0, 0xffffffff) or
\* the mapped page number of one of the two other pages.
IndexEntries == {0, 1, 2, UNAVAILABLE}

\* The sub pages arrays of a page of nk keys: nk + 1 entries, those after
\* the second 0.
SubPagesArrays(nk) ==
  {e \in [1..(nk + 1) -> IndexEntries] : \A i \in 3..(nk + 1) : e[i] = 0}

\* The contents of physical page p: up to MaxKeys keys, key i of page p is
\* written <<p, i>>.
IndexPageContents(p) ==
  UNION {{[page_type |-> PAGE_TYPE_ACTIVE, root_page_number |-> 0,
           keys |-> [i \in 1..nk |-> <<p, i>>], entries |-> e]
            : e \in SubPagesArrays(nk)} : nk \in 0..MaxKeys}

\* The contents of physical page 0: administrative with the root at mapped
\* page 1, 2 or 3 (3 is no index of the mappings), or not administrative.
FirstPageContents ==
  {[page_type |-> t[1], root_page_number |-> t[2], keys |-> <<>>,
    entries |-> <<0>>]
     : t \in {<<PAGE_TYPE_ADMINISTRATIVE, 1>>, <<PAGE_TYPE_ADMINISTRATIVE, 2>>,
              <<PAGE_TYPE_ADMINISTRATIVE, 3>>, <<PAGE_TYPE_ACTIVE, 1>>}}

IndexFiles ==
  {[p \in 0..2 |-> IF p = 0 THEN c0 ELSE IF p = 1 THEN c1 ELSE c2]
     : c0 \in FirstPageContents, c1 \in IndexPageContents(1),
       c2 \in IndexPageContents(2)}

\* The mappings of the generated index mapping files.
IndexMappings ==
  {<<0, 1, 2>>, <<0, 2, 1>>, <<0, 1, UNAVAILABLE>>, <<0, 1>>, <<>>,
   <<UNAVAILABLE, 1, 2>>}

\* The file holds its three pages, or was cut after the second.
IndexFileSizes == {3 * PAGE_SIZE, 2 * PAGE_SIZE}

KeysIdle ==
  /\ ipages = <<>>
  /\ ifile_size = 0
  /\ imappings = <<>>
  /\ first_mapped_page = NoPage
  /\ root_page = NoPage
  /\ kstack = <<>>
  /\ yielded = <<>>
  /\ kstate = "idle"

\* CIMRepository.Open returned: IndexBinaryTreeFile.__init__ and Open.
InitKeys ==
  /\ ipages \in IndexFiles
  /\ ifile_size \in IndexFileSizes
  /\ imappings \in IndexMappings
  /\ first_mapped_page = NoPage
  /\ root_page = NoPage
  /\ kstack = <<>>
  /\ yielded = <<>>
  /\ kstate = "new"

NextKeys == GetKeys \/ YieldKey \/ VisitSubPage \/ ReturnFromPage

-----------------------------------------------------------------------------
(* Claims about GetKeys, under SpecKeys *)

IsPrefix(a, b) == Len(a) <= Len(b) /\ SubSeq(b, 1, Len(a)) = a

IsChild(entry) == entry \notin {0, UNAVAILABLE}

RECURSIVE PreOrderOfPage(_, _)
RECURSIVE PreOrderOfSubPages(_, _)
\* The keys of physical page p, then the keys of its sub pages (d levels
\* down at most), each in the same way.
PreOrderOfPage(p, d) ==
  ipages[p].keys \o PreOrderOfSubPages(SelectSeq(ipages[p].entries, IsChild), d)

\* The same for each of the mapped page numbers subs, one after the other;
\* a page number that resolves to no page has no keys.
PreOrderOfSubPages(subs, d) ==
  IF subs = <<>> \/ d = 0 THEN <<>>
  ELSE
    LET n == Head(subs)
        here == IF n < Len(imappings) /\ imappings[n + 1] * PAGE_SIZE < ifile_size
                  THEN PreOrderOfPage(imappings[n + 1], d - 1)
                  ELSE <<>>
    IN  here \o PreOrderOfSubPages(Tail(subs), d)

\* C1: the keys GetKeys has yielded are at every moment the first keys of
\* the pre-order enumeration from the root page (a page's keys in page
\* order, then its sub pages other than 0 and 0xffffffff in sub page order),
\* all of them once GetKeys is exhausted; and while a page is being
\* enumerated, every page above it has yielded all its keys.
C1_PreOrder ==
  /\ root_page # NoPage =>
       LET expected == PreOrderOfPage(root_page.page.page_offset \div PAGE_SIZE,
                                      MaxDepth - 1)
       IN  /\ IsPrefix(yielded, expected)
           /\ kstate = "done" => yielded = expected
  /\ root_page = NoPage => yielded = <<>>
  /\ \A j \in 1..(Len(kstack) - 1) :
       kstack[j].ki > Len(kstack[j].page.keys)

C1_Witness ==
  /\ kstate = "done"
  /\ Len(yielded) >= 5
  /\ \E i \in 1..(Len(yielded) - 1) : yielded[i][1] = 2 /\ yielded[i + 1][1] = 1

\* C7: GetKeys does not raise when GetRootPage or GetMappedPage returns no
\* page.
C7_NoRaiseOnMissingPage == kstate # "AttributeError"

\* The sub page numbers of physical page p that are not "no child".
Children(p) == SelectSeq(ipages[p].entries, IsChild)

\* Mapped page number n is a page of the file.
Resolves(n) ==
  /\ n < Len(imappings)
  /\ imappings[n + 1] \in DOMAIN ipages
  /\ imappings[n + 1] * PAGE_SIZE < ifile_size

\* The physical pages that the sub page numbers of page p resolve to.
SubPagesOf(p) ==
  {imappings[Children(p)[i] + 1] :
     i \in {j \in 1..Len(Children(p)) : Resolves(Children(p)[j])}}

\* The pages reached from the pages ps through one reference or more.
ReachedFrom(ps) ==
  LET one == UNION {SubPagesOf(p) : p \in ps}
      two == one \cup UNION {SubPagesOf(p) : p \in one}
  IN  two \cup UNION {SubPagesOf(p) : p \in two}

\* The physical page of the root page.
RootOf == root_page.page.page_offset \div PAGE_SIZE

\* Every sub page number of the root page and of the pages reached from it
\* resolves to a page.
AllResolve ==
  \A p \in {RootOf} \cup ReachedFrom({RootOf}) :
    \A i \in 1..Len(Children(p)) : Resolves(Children(p)[i])

\* A page reached from the root page reaches itself.
Cyclic == \E p \in {RootOf} \cup ReachedFrom({RootOf}) : p \in ReachedFrom({p})

RECURSIVE ReferencePaths(_, _, _)
\* The reference paths of at most d references from page p to page q.
ReferencePaths(p, q, d) ==
  LET RECURSIVE Sum(_)
      Sum(i) == IF i = 0 THEN 0
                ELSE Sum(i - 1)
                       + (IF Resolves(Children(p)[i])
                            THEN ReferencePaths(imappings[Children(p)[i] + 1],
                                                q, d - 1)
                            ELSE 0)
  IN  (IF p = q THEN 1 ELSE 0) + (IF d = 0 THEN 0 ELSE Sum(Len(Children(p))))

\* How often key is among the keys yielded.
TimesYielded(key) == Cardinality({i \in 1..Len(yielded) : yielded[i] = key})

\* C27: when every sub page number resolves to a page, GetKeys comes to
\* its end only if no page reached from the root page reaches itself, and
\* then it has yielded the keys of a page as many times as there are
\* reference paths from the root page to it; without such a cycle no page
\* is enumerated within itself and nothing is raised, with one the
\* enumeration never ends.
C27_NoRecordOfVisitedPages ==
  (root_page # NoPage /\ kstate # "new" /\ AllResolve) =>
    /\ kstate \in {"running", "done"}
    /\ kstate = "done" => ~Cyclic
    /\ ~Cyclic =>
         /\ \A i, j \in 1..Len(kstack) :
              kstack[i].page.page_offset = kstack[j].page.page_offset => i = j
         /\ kstate = "done" =>
              \A q \in DOMAIN ipages : \A k \in 1..Len(ipages[q].keys) :
                TimesYielded(ipages[q].keys[k])
                  = ReferencePaths(RootOf, q, Cardinality(DOMAIN ipages))

\* GetKeys has come to its end on a root page that refers to the other
\* page twice, and has yielded the key of that page twice.
C27_Witness ==
  /\ kstate = "done"
  /\ root_page # NoPage
  /\ AllResolve
  /\ RootOf = 1
  /\ ReferencePaths(1, 2, 3) = 2
  /\ yielded = << <<1, 1>>, <<2, 1>>, <<2, 1>> >>

\* The first mapped page can be read: mappings[0] is a page of the file.
FirstPageReadable ==
  /\ Len(imappings) >= 1
  /\ imappings[1] * PAGE_SIZE < ifile_size

\* C15: GetRootPage has returned a page only if mappings[0] is a readable
\* page of page_type 0xaddd, and the page is then the one read at physical
\* page mappings[root_page_number] of that first page; when the first
\* mapped page has another page type neither GetFirstMappedPage nor
\* GetRootPage has returned a page.
C15_RootPageThroughAdministrativePage ==
  /\ root_page # NoPage =>
       /\ FirstPageReadable
       /\ ipages[imappings[1]].page_type = PAGE_TYPE_ADMINISTRATIVE
       /\ ipages[imappings[1]].root_page_number < Len(imappings)
       /\ LET page_number ==
                imappings[ipages[imappings[1]].root_page_number + 1]
          IN  /\ page_number * PAGE_SIZE < ifile_size
              /\ root_page.page = ReadIndexPage(ipages, page_number * PAGE_SIZE)
  /\ (FirstPageReadable
        /\ ipages[imappings[1]].page_type # PAGE_TYPE_ADMINISTRATIVE) =>
       /\ first_mapped_page.outcome # "page"
       /\ root_page.outcome # "page"
  /\ first_mapped_page.outcome = "page" =>
       first_mapped_page.page.page_type = PAGE_TYPE_ADMINISTRATIVE

\* GetRootPage has returned physical page 2 as the root, which is mapped
\* page 1 of the mappings.
C15_Witness ==
  /\ root_page # NoPage
  /\ kstate = "done"
  /\ imappings = <<0, 2, 1>>
  /\ root_page.page.page_offset = 2 * PAGE_SIZE

-----------------------------------------------------------------------------
(* CIM keys.  A string is a sequence of characters. *)

KEY_SEGMENT_SEPARATOR == "\\"

KEY_VALUE_SEPARATOR == "."

DigitValue(c) ==
  CASE c = "0" -> 0 [] c = "1" -> 1 [] c = "2" -> 2 [] c = "3" -> 3
    [] c = "4" -> 4 [] c = "5" -> 5 [] c = "6" -> 6 [] c = "7" -> 7
    [] c = "8" -> 8 [] c = "9" -> 9

Digits == {"0", "1", "2", "3", "4", "5", "6", "7", "8", "9"}

\* The indexes of string at which character c stands.
IndexesOf(string, c) == {i \in 1..Len(string) : string[i] = c}

SetMin(S) == CHOOSE x \in S : \A y \in S : x <= y

SetMax(S) == CHOOSE x \in S : \A y \in S : x >= y

\* string.rpartition(sep)[2]: what follows the last sep, the whole string
\* when there is none.
RPartitionTail(string, sep) ==
  IF IndexesOf(string, sep) = {} THEN string
  ELSE SubSeq(string, SetMax(IndexesOf(string, sep)) + 1, Len(string))

\* string.partition(sep)[0]: what precedes the first sep.
PartitionHead(string, sep) ==
  IF IndexesOf(string, sep) = {} THEN string
  ELSE SubSeq(string, 1, SetMin(IndexesOf(string, sep)) - 1)

RECURSIVE Split(_, _)
\* string.split(sep): the pieces between the separators, empty ones too.
Split(string, sep) ==
  IF IndexesOf(string, sep) = {} THEN <<string>>
  ELSE LET i == SetMin(IndexesOf(string, sep))
       IN  <<SubSeq(string, 1, i - 1)>>
             \o Split(SubSeq(string, i + 1, Len(string)), sep)

RECURSIVE DecimalValue(_, _)
\* The value of the digits, most significant first, after those worth acc.
DecimalValue(digits, acc) ==
  IF digits = <<>> THEN acc
  ELSE DecimalValue(Tail(digits), 10 * acc + DigitValue(Head(digits)))

\* int(string, 10) for a string of digits, signs and other characters
\* that are neither white space nor underscores: an optional sign and at
\* least one digit, else ValueError.
IntBase10(string) ==
  LET signed == string # <<>> /\ Head(string) \in {"-", "+"}
      digits == IF signed THEN Tail(string) ELSE string
  IN  IF digits = <<>> \/ \E i \in 1..Len(digits) : digits[i] \notin Digits
        THEN [ok |-> FALSE]
        ELSE [ok |-> TRUE,
              value |-> IF signed /\ Head(string) = "-"
                          THEN 0 - DecimalValue(digits, 0)
                          ELSE DecimalValue(digits, 0)]

NoKeyValues == [outcome |-> "None"]

GetKeyValues_WholeKey(key) ==
  IF IndexesOf(key, KEY_VALUE_SEPARATOR) = {} THEN NoKeyValues
  ELSE
    LET key_values == Split(key, KEY_VALUE_SEPARATOR)
    IN  IF Len(key_values) # 4 THEN NoKeyValues
        ELSE
          LET page_number == IntBase10(key_values[2])
              record_identifier == IntBase10(key_values[3])
              size == IntBase10(key_values[4])
          IN  IF ~page_number.ok \/ ~record_identifier.ok \/ ~size.ok
                THEN NoKeyValues
                ELSE [outcome |-> "values", name |-> key_values[1],
                      page_number |-> page_number.value,
                      record_identifier |-> record_identifier.value,
                      data_size |-> size.value]

\* ObjectsDataFile._GetKeyValues: the four values of the key's last
\* segment, None when it has no ".", not four values or a value that is
\* no integer.
GetKeyValues(key) ==
  LET last == RPartitionTail(key, KEY_SEGMENT_SEPARATOR)
  IN  IF IndexesOf(last, KEY_VALUE_SEPARATOR) = {} THEN NoKeyValues
      ELSE
        LET key_values == Split(last, KEY_VALUE_SEPARATOR)
        IN  IF Len(key_values) # 4 THEN NoKeyValues
            ELSE
              LET page_number == IntBase10(key_values[2])
                  record_identifier == IntBase10(key_values[3])
                  size == IntBase10(key_values[4])
              IN  IF ~page_number.ok THEN NoKeyValues
                  ELSE IF ~record_identifier.ok THEN NoKeyValues
                  ELSE IF ~size.ok THEN NoKeyValues
                  ELSE [outcome |-> "values", name |-> key_values[1],
                        page_number |-> page_number.value,
                        record_identifier |-> record_identifier.value,
                        data_size |-> size.value]

RECURSIVE Join(_, _)
\* sep.join(strings)
Join(strings, sep) ==
  IF strings = <<>> THEN <<>>
  ELSE IF Len(strings) = 1 THEN strings[1]
  ELSE strings[1] \o <<sep>> \o Join(Tail(strings), sep)

\* IndexBinaryTreePage.ReadPage: the key of the key segments, the separator
\* before each.
KeyPath(key_segments) ==
  <<KEY_SEGMENT_SEPARATOR>> \o Join(key_segments, KEY_SEGMENT_SEPARATOR)

-----------------------------------------------------------------------------
(* ObjectsDataPage and ObjectsDataFile *)

\* ObjectsDataFile._ReadPage: a new ObjectsDataPage read at file_offset.
\* Unless it is a data page, ObjectsDataPage.ReadPage reads descriptors of
\* 16 bytes up to the empty one that ends them; a descriptor cut short by
\* the end of the file raises ParseError.
ReadObjectsPage(pages, file_size, file_offset, data_page) ==
  IF data_page
    THEN [outcome |-> "page", page_offset |-> file_offset,
          object_descriptors |-> <<>>]
    ELSE
      LET descriptors == pages[file_offset \div PAGE_SIZE]
      IN  IF file_size - file_offset
               < (Len(descriptors) + 1) * OBJECT_DESCRIPTOR_SIZE
            THEN [outcome |-> "ParseError"]
            ELSE [outcome |-> "page", page_offset |-> file_offset,
                  object_descriptors |-> descriptors]

ObjectsGetMappedPage_Unmapped(pages, table, file_size, page_number, data_page) ==
  LET r == GetPage(file_size, page_number)
  IN  IF page_number < 0 \/ page_number >= Len(table)
        THEN [outcome |-> "IndexError"]
      ELSE IF r.outcome = "page"
        THEN ReadObjectsPage(pages, file_size, r.page_offset, data_page)
        ELSE r

\* ObjectsDataFile.GetMappedPage with the page it returns.
ObjectsGetMappedPage(pages, table, file_size, page_number, data_page) ==
  LET r == GetMappedPage(table, file_size, page_number)
  IN  IF r.outcome = "page"
        THEN ReadObjectsPage(pages, file_size, r.page_offset, data_page)
        ELSE r

NoDescriptor == [outcome |-> "None"]

GetObjectDescriptor_AnySize(object_descriptors, record_identifier, size) ==
  LET matches == {i \in 1..Len(object_descriptors) :
                    object_descriptors[i].identifier = record_identifier}
  IN  IF matches = {} THEN NoDescriptor
      ELSE [outcome |-> "descriptor",
            descriptor |-> object_descriptors[SetMin(matches)]]

\* ObjectsDataPage.GetObjectDescriptor: the first descriptor with the
\* identifier, None when there is none or when its data_size differs.
GetObjectDescriptor(object_descriptors, record_identifier, size) ==
  LET matches == {i \in 1..Len(object_descriptors) :
                    object_descriptors[i].identifier = record_identifier}
  IN  IF matches = {} THEN NoDescriptor
      ELSE IF object_descriptors[SetMin(matches)].data_size # size
        THEN NoDescriptor
      ELSE [outcome |-> "descriptor",
            descriptor |-> object_descriptors[SetMin(matches)]]

ReadObjectRecordData_OffByOne(file_size, page_offset, data_offset, size, negative_read) ==
  LET file_offset == page_offset + data_offset
      available_page_size == PAGE_SIZE - data_offset - 1
      read_size == IF size > available_page_size
                     THEN available_page_size ELSE size
      rest == IF file_offset >= file_size THEN 0 ELSE file_size - file_offset
  IN  IF read_size >= 0
        THEN [outcome |-> "data", segment |-> <<file_offset, Min(read_size, rest)>>]
      ELSE IF read_size = -1 \/ negative_read = "to the end"
        THEN [outcome |-> "data", segment |-> <<file_offset, rest>>]
      ELSE [outcome |-> "ValueError"]

\* ObjectsDataPage.ReadObjectRecordData: seek to the page offset plus
\* data_offset and read the smaller of size and what is left of the page.
\* The segment read is <<file offset, number of bytes>>.  For a data_offset
\* beyond the page the size handed to read is negative: read(-1) reads to
\* the end of the file, and so does a read of a smaller size on a Python 2
\* file, while Python 3 raises ValueError for it (negative_read).
ReadObjectRecordData(file_size, page_offset, data_offset, size, negative_read) ==
  LET file_offset == page_offset + data_offset
      available_page_size == PAGE_SIZE - data_offset
      read_size == IF size > available_page_size
                     THEN available_page_size ELSE size
      rest == IF file_offset >= file_size THEN 0 ELSE file_size - file_offset
  IN  IF read_size >= 0
        THEN [outcome |-> "data", segment |-> <<file_offset, Min(read_size, rest)>>]
      ELSE IF read_size = -1 \/ negative_read = "to the end"
        THEN [outcome |-> "data", segment |-> <<file_offset, rest>>]
      ELSE [outcome |-> "ValueError"]

NoLocals == [called |-> FALSE]

NoRecord == [outcome |-> "None"]

RECURSIVE TotalLength(_)
\* len(b''.join(data_segments))
TotalLength(segments) ==
  IF segments = <<>> THEN 0
  ELSE Head(segments)[2] + TotalLength(Tail(segments))

\* GetObjectRecordByKey up to its loop: the key values are unpacked, which
\* raises TypeError when _GetKeyValues returned None.
GetObjectRecordByKey ==
  /\ rstate = "new"
  /\ LET key_values == GetKeyValues(rkey)
     IN  IF key_values = NoKeyValues
           THEN /\ rstate' = "TypeError"
                /\ rlocals' = rlocals
           ELSE /\ rstate' = "loop"
                /\ rlocals' = [called |-> TRUE,
                               key |-> key_values.name,
                               page_number |-> key_values.page_number,
                               record_identifier |-> key_values.record_identifier,
                               data_size |-> key_values.data_size,
                               data_segments |-> <<>>,
                               data_page |-> FALSE,
                               data_segment_index |-> 0,
                               object_descriptor |-> NoDescriptor]
  /\ UNCHANGED <<opages, ofile_size, omappings, rkey, rfetched, object_record>>
  /\ UNCHANGED notRecVars

ReadDataSegment_KeepEmpty(negative_read) ==
  /\ rstate = "loop"
  /\ rlocals.data_size > 0
  /\ LET object_page == ObjectsGetMappedPage(opages, omappings, ofile_size,
                                             rlocals.page_number,
                                             rlocals.data_page)
         object_descriptor ==
           IF rlocals.data_page THEN rlocals.object_descriptor
           ELSE GetObjectDescriptor(object_page.object_descriptors,
                                    rlocals.record_identifier,
                                    rlocals.data_size)
         data_offset == IF rlocals.data_page THEN 0
                        ELSE object_descriptor.descriptor.data_offset
         data_segment == ReadObjectRecordData(ofile_size,
                                              object_page.page_offset,
                                              data_offset, rlocals.data_size,
                                              negative_read)
     IN  /\ rfetched' = Append(rfetched,
                               [page_number |-> rlocals.page_number,
                                data_page |-> rlocals.data_page,
                                result |-> object_page])
         /\ IF object_page.outcome # "page" THEN
              /\ rstate' = object_page.outcome
              /\ rlocals' = rlocals
            ELSE IF object_descriptor = NoDescriptor /\ ~rlocals.data_page THEN
              /\ rstate' = "AttributeError"
              /\ rlocals' = rlocals
            ELSE IF data_segment.outcome # "data" THEN
              /\ rstate' = data_segment.outcome
              /\ rlocals' = [rlocals EXCEPT !.object_descriptor = object_descriptor,
                                            !.data_page = TRUE]
            ELSE
              /\ rstate' = "loop"
              /\ rlocals' =
                   [rlocals EXCEPT
                      !.object_descriptor = object_descriptor,
                      !.data_page = TRUE,
                      !.data_segments = Append(@, data_segment.segment),
                      !.data_size = @ - data_segment.segment[2],
                      !.data_segment_index = @ + 1,
                      !.page_number = @ + 1]
  /\ UNCHANGED <<opages, ofile_size, omappings, rkey, object_record>>
  /\ UNCHANGED notRecVars

\* One pass of "while data_size > 0": the mapped page, on the first page
\* the object descriptor and its data_offset, the data segment.
ReadDataSegment(negative_read) ==
  /\ rstate = "loop"
  /\ rlocals.data_size > 0
  /\ LET object_page == ObjectsGetMappedPage(opages, omappings, ofile_size,
                                             rlocals.page_number,
                                             rlocals.data_page)
         object_descriptor ==
           IF rlocals.data_page THEN rlocals.object_descriptor
           ELSE GetObjectDescriptor(object_page.object_descriptors,
                                    rlocals.record_identifier,
                                    rlocals.data_size)
         data_offset == IF rlocals.data_page THEN 0
                        ELSE object_descriptor.descriptor.data_offset
         data_segment == ReadObjectRecordData(ofile_size,
                                              object_page.page_offset,
                                              data_offset, rlocals.data_size,
                                              negative_read)
     IN  /\ rfetched' = Append(rfetched,
                               [page_number |-> rlocals.page_number,
                                data_page |-> rlocals.data_page,
                                result |-> object_page])
         /\ IF object_page.outcome # "page" THEN
              /\ rstate' = object_page.outcome
              /\ rlocals' = rlocals
            ELSE IF object_descriptor = NoDescriptor /\ ~rlocals.data_page THEN
              /\ rstate' = "AttributeError"
              /\ rlocals' = rlocals
            ELSE IF data_segment.outcome # "data" THEN
              /\ rstate' = data_segment.outcome
              /\ rlocals' = [rlocals EXCEPT !.object_descriptor = object_descriptor,
                                            !.data_page = TRUE]
            ELSE IF data_segment.segment[2] = 0 THEN
              /\ rstate' = "None"
              /\ rlocals' = [rlocals EXCEPT !.object_descriptor = object_descriptor,
                                            !.data_page = TRUE]
            ELSE
              /\ rstate' = "loop"
              /\ rlocals' =
                   [rlocals EXCEPT
                      !.object_descriptor = object_descriptor,
                      !.data_page = TRUE,
                      !.data_segments = Append(@, data_segment.segment),
                      !.data_size = @ - data_segment.segment[2],
                      !.data_segment_index = @ + 1,
                      !.page_number = @ + 1]
  /\ UNCHANGED <<opages, ofile_size, omappings, rkey, object_record>>
  /\ UNCHANGED notRecVars

\* After the loop: the ObjectRecord of the key's data type and the joined
\* data segments.
ReturnObjectRecord ==
  /\ rstate = "loop"
  /\ rlocals.data_size <= 0
  /\ rstate' = "record"
  /\ object_record' = [outcome |-> "record",
                       data_type |-> PartitionHead(rlocals.key, "_"),
                       data |-> rlocals.data_segments]
  /\ UNCHANGED <<opages, ofile_size, omappings, rkey, rlocals, rfetched>>
  /\ UNCHANGED notRecVars

NextRec ==
  \/ GetObjectRecordByKey
  \/ \E negative_read \in {"to the end", "ValueError"} :
       ReadDataSegment(negative_read)
  \/ ReturnObjectRecord

-----------------------------------------------------------------------------
(* Specification SpecKey: _GetKeyValues on the keys of an index page.      *)

\* The integer literals of the generated keys.
IntegerTexts == {<<"1">>, <<"2", "0">>, <<"-", "3">>}

\* The values of the generated keys: a type prefix, the integer literals,
\* a word and the empty string.
KeyValueTexts == {<<"C", "D">>, <<"x">>, <<>>} \cup IntegerTexts

\* The segments before the last one of a generated key.
KeyParents == {<<>>, << <<"N", "S">> >>}

\* The key IndexBinaryTreePage.ReadPage builds of the segments parents and
\* of a last segment that holds values, "." between them.
KeyOf(parents, values) ==
  KeyPath(parents \o <<Join(values, KEY_VALUE_SEPARATOR)>>)

KeyIdle ==
  /\ ckey_values = <<>>
  /\ ckey = <<>>
  /\ ckey_result = [outcome |-> "idle"]

InitKey ==
  /\ ckey_values \in UNION {[1..n -> KeyValueTexts] : n \in 1..MaxKeyValues}
  /\ \E parents \in KeyParents : ckey = KeyOf(parents, ckey_values)
  /\ ckey_result = [outcome |-> "new"]

\* ObjectsDataFile._GetKeyValues(key)
CallGetKeyValues ==
  /\ ckey_result = [outcome |-> "new"]
  /\ ckey_result' = GetKeyValues(ckey)
  /\ UNCHANGED <<ckey_values, ckey>>
  /\ UNCHANGED notKeyVars

NextKey == CallGetKeyValues

-----------------------------------------------------------------------------
(* Claims about _GetKeyValues, under SpecKey *)

TextValue(text) ==
  CASE text = <<"1">> -> 1 [] text = <<"2", "0">> -> 20 [] text = <<"-", "3">> -> -3

\* C6 as stated: a key whose last segment has exactly 4 "." separated
\* values is never rejected by _GetKeyValues.
C6_FourValuesAccepted ==
  (ckey_result.outcome # "new" /\ Len(ckey_values) = 4) => ckey_result # NoKeyValues

\* C6 as amended: a key whose last segment has exactly 4 "." separated
\* values, the second, third and fourth of them integer literals, is
\* accepted, and _GetKeyValues returns the first value and the three
\* integers.
C6_FourValuesWithIntegersAccepted ==
  (/\ ckey_result.outcome # "new"
   /\ Len(ckey_values) = 4
   /\ \A i \in 2..4 : ckey_values[i] \in IntegerTexts)
    => ckey_result = [outcome |-> "values", name |-> ckey_values[1],
                      page_number |-> TextValue(ckey_values[2]),
                      record_identifier |-> TextValue(ckey_values[3]),
                      data_size |-> TextValue(ckey_values[4])]

C6_Witness ==
  /\ ckey_result.outcome # "new"
  /\ ckey_result # NoKeyValues
  /\ ckey_values = << <<"C", "D">>, <<"2", "0">>, <<"1">>, <<"-", "3">> >>
  /\ Len(ckey) > 12

-----------------------------------------------------------------------------
(* Specification SpecRec: GetObjectRecordByKey on an objects data file.    *)

\* The data_offset values of the descriptors: within the page, its last
\* byte, and at and beyond the end of the page.
DataOffsets == {32, PAGE_SIZE - 1, PAGE_SIZE, PAGE_SIZE + 1, PAGE_SIZE + 3}

\* The data sizes: what is left of the page after the offsets within it,
\* and one byte more.
DataSizes == {1, 2, PAGE_SIZE - 32, PAGE_SIZE - 32 + 1}

RecordDescriptors ==
  [identifier : {1}, data_offset : DataOffsets, data_size : DataSizes]

\* Descriptors that come before the record's: of another record, and of
\* the same identifier with another size.
OtherDescriptors ==
  {[identifier |-> 2, data_offset |-> 32, data_size |-> 1],
   [identifier |-> 1, data_offset |-> 32, data_size |-> 3]}

DescriptorTables ==
  {<<>>} \cup {<<d>> : d \in RecordDescriptors}
         \cup {<<o, d>> : o \in OtherDescriptors, d \in RecordDescriptors}

ObjectsFileSizes == {4000, PAGE_SIZE, PAGE_SIZE + 1, 2 * PAGE_SIZE}

ObjectsMappings == SeqsUpTo({0, 1, UNAVAILABLE}, 2)

PageNumberTexts == {<<"0">>, <<"1">>, <<"-", "1">>}

DataSizeTexts ==
  {<<"0">>, <<"1">>, <<"2">>, <<"8", "1", "6", "0">>, <<"8", "1", "6", "1">>,
   <<"-", "1">>}

\* Keys of 4 values with integers, and keys _GetKeyValues does not accept:
\* no values, 3 values, 5 values, a page number that is no integer.
RecordKeys ==
  {KeyOf(<< <<"N", "S">> >>, << <<"C", "D", "_", "x">>, pn, <<"1">>, ds >>) :
     pn \in PageNumberTexts, ds \in DataSizeTexts}
  \cup {KeyOf(<< <<"N", "S">> >>, << <<"C", "D", "_", "x">> >>),
        KeyOf(<<>>, << <<"C", "D", "_", "x">>, <<"0">>, <<"1">> >>),
        KeyOf(<<>>, << <<"C", "D", "_", "x">>, <<"0">>, <<"1">>, <<"1">>, <<"1">> >>),
        KeyOf(<<>>, << <<"C", "D", "_", "x">>, <<"x">>, <<"1">>, <<"1">> >>)}

RecIdle ==
  /\ opages = <<>>
  /\ ofile_size = 0
  /\ omappings = <<>>
  /\ rkey = <<>>
  /\ rstate = "idle"
  /\ rlocals = NoLocals
  /\ rfetched = <<>>
  /\ object_record = NoRecord

\* An opened objects data file and the key of a call.  The descriptors are
\* those of physical page 0, page 1 starts with the empty descriptor.
InitRec ==
  /\ \E table \in DescriptorTables :
       opages = [p \in 0..1 |-> IF p = 0 THEN table ELSE <<>>]
  /\ ofile_size \in ObjectsFileSizes
  /\ omappings \in ObjectsMappings
  /\ rkey \in RecordKeys
  /\ rstate = "new"
  /\ rlocals = NoLocals
  /\ rfetched = <<>>
  /\ object_record = NoRecord

(* Claims under SpecRec *)

\* The call has returned or raised.
RecDone ==
  rstate \in {"record", "None", "TypeError", "AttributeError", "IndexError",
              "ParseError", "ValueError"}

\* The values the key holds, read off the key text.
KeyComponents(key) ==
  Split(RPartitionTail(key, KEY_SEGMENT_SEPARATOR), KEY_VALUE_SEPARATOR)

\* The pages fetched as continuation pages.
ContinuationFetches ==
  {i \in 1..Len(rfetched) : rfetched[i].data_page}

\* C2: whenever GetObjectRecordByKey returns an object record, the length
\* of the record's data equals the data size encoded in the key.
C2_RecordLengthIsKeyDataSize ==
  rstate = "record" =>
    TotalLength(object_record.data)
      = IntBase10(KeyComponents(rkey)[4]).value

\* The descriptor of the record was found on a first page that is wholly
\* within the file, its data_offset within the page.
DescriptorOnFullPage ==
  /\ rlocals.called
  /\ rlocals.object_descriptor # NoDescriptor
  /\ rlocals.object_descriptor.descriptor.data_offset < PAGE_SIZE
  /\ rfetched[1].result.page_offset + PAGE_SIZE <= ofile_size

\* C3: for a descriptor with data_offset d < 8192 on a fully present page,
\* a key data size of 8192 - d is satisfied by the one page (a record is
\* returned and no continuation page is fetched), and a key data size of
\* 8192 - d + 1 fetches exactly one continuation page.
C3_PageBoundary ==
  (RecDone /\ DescriptorOnFullPage) =>
    LET d == rlocals.object_descriptor.descriptor.data_offset
        size == IntBase10(KeyComponents(rkey)[4]).value
    IN  /\ size = PAGE_SIZE - d =>
             /\ rstate = "record"
             /\ Len(rfetched) = 1
             /\ ContinuationFetches = {}
        /\ size = PAGE_SIZE - d + 1 =>
             /\ Len(rfetched) = 2
             /\ Cardinality(ContinuationFetches) = 1

\* A record one byte larger than what is left of its first page has been
\* returned from two pages.
C3_Witness ==
  /\ rstate = "record"
  /\ DescriptorOnFullPage
  /\ IntBase10(KeyComponents(rkey)[4]).value
       = PAGE_SIZE - rlocals.object_descriptor.descriptor.data_offset + 1
  /\ Len(rfetched) = 2
  /\ object_record.data = <<<<PAGE_SIZE - 1, 1>>, <<PAGE_SIZE, 1>>>>

\* The first page was read and has no descriptor of the key's record
\* identifier with the key's data size.
NoMatchingDescriptor ==
  /\ Len(rfetched) >= 1
  /\ rfetched[1].result.outcome = "page"
  /\ LET descriptors == rfetched[1].result.object_descriptors
         matches == {i \in 1..Len(descriptors) :
                       descriptors[i].identifier
                         = IntBase10(KeyComponents(rkey)[3]).value}
     IN  \/ matches = {}
         \/ descriptors[SetMin(matches)].data_size
              # IntBase10(KeyComponents(rkey)[4]).value

\* C4: when the first page has no object descriptor with the key's record
\* identifier, or the matching descriptor's data_size differs from the
\* key's data size, GetObjectRecordByKey returns nothing and raises no
\* exception.
C4_NoDescriptorReturnsNone ==
  (RecDone /\ NoMatchingDescriptor) => rstate = "None"

\* C5: for a key whose last segment does not hold exactly 4 values,
\* GetObjectRecordByKey returns no record and does not fail.
C5_NotFourValuesReturnsNone ==
  (RecDone /\ Len(KeyComponents(rkey)) # 4) => rstate = "None"

\* mappings[page_number] of the objects mapping file, from the end for a
\* negative page_number.
MappingOf(page_number) ==
  IF page_number < 0 THEN omappings[Len(omappings) + page_number + 1]
  ELSE omappings[page_number + 1]

\* C25: segment k = 0, 1, ... of a record of key page number p is read
\* from the page at mappings[p + k], the page of segment 0 read with its
\* descriptors and the segment at the data_offset of the record's
\* descriptor, the page of every later segment read as a data page and the
\* segment at offset 0; the record returned is the segments in that order.
C25_SegmentsOfMappedPages ==
  rlocals.called =>
    LET p == IntBase10(KeyComponents(rkey)[2]).value
    IN  /\ \A k \in 1..Len(rfetched) :
             /\ rfetched[k].page_number = p + (k - 1)
             /\ rfetched[k].data_page = (k > 1)
             /\ rfetched[k].result.outcome = "page" =>
                  rfetched[k].result.page_offset
                    = MappingOf(p + (k - 1)) * PAGE_SIZE
        /\ Len(rlocals.data_segments) <= Len(rfetched)
        /\ \A k \in 1..Len(rlocals.data_segments) :
             rlocals.data_segments[k][1]
               = rfetched[k].result.page_offset
                   + (IF k = 1
                        THEN rlocals.object_descriptor.descriptor.data_offset
                        ELSE 0)
        /\ rstate = "record" =>
             /\ object_record.data = rlocals.data_segments
             /\ Len(object_record.data) = Len(rfetched)

\* A record of two segments that are both of the physical page 0.
C25_Witness ==
  /\ rstate = "record"
  /\ omappings = <<0, 0>>
  /\ Len(rfetched) = 2
  /\ object_record.data = <<<<32, PAGE_SIZE - 32>>, <<0, 1>>>>

\* A pass of the loop of GetObjectRecordByKey.
LoopPass == rstate = "loop" /\ rfetched' # rfetched

\* C26: every pass of the loop ends the call (no page, an empty segment,
\* an exception) or appends a segment that is not empty and leaves less
\* data to read than before, and the pages fetched for a key are never
\* more than its data size.
C26_LoopEnds ==
  [][/\ LoopPass =>
          \/ rstate' # "loop"
          \/ /\ Len(rlocals'.data_segments) = Len(rlocals.data_segments) + 1
             /\ rlocals'.data_segments[Len(rlocals'.data_segments)][2] > 0
             /\ rlocals'.data_size < rlocals.data_size
     /\ rlocals'.called =>
          \/ Len(rfetched') = 0
          \/ Len(rfetched') <= IntBase10(KeyComponents(rkey)[4]).value]_vars

\* The loop has read what the first page holds of a record and has one
\* byte left to read.
C26_Witness ==
  /\ rstate = "loop"
  /\ rlocals.called
  /\ rlocals.data_size = 1
  /\ rlocals.data_segments = <<<<32, PAGE_SIZE - 32>>>>

-----------------------------------------------------------------------------
(* IndexBinaryTreePage.ReadPage on the bytes of Index.btr.  The file is    *)
(* its first bytes, a sequence of 0..255, followed by 0 bytes up to its    *)
(* size.  A reader is the page object together with the position of the   *)
(* file object and a log of the reads made.                                *)

\* The byte at offset i of the file.
ByteAt(bytes, i) == IF i < Len(bytes) THEN bytes[i + 1] ELSE 0

\* len(file_object.read(size)) at position pos, size >= 0.
ReadLength(file_size, pos, size) ==
  IF pos >= file_size THEN 0 ELSE Min(size, file_size - pos)

\* uint16le at offset pos.
Uint16At(bytes, pos) == ByteAt(bytes, pos) + 256 * ByteAt(bytes, pos + 1)

\* uint32le at offset pos, 0xffffffff as UNAVAILABLE (see Numbers).
Uint32At(bytes, pos) ==
  IF \A i \in 0..3 : ByteAt(bytes, pos + i) = 255 THEN UNAVAILABLE
  ELSE Uint16At(bytes, pos) + 65536 * Uint16At(bytes, pos + 2)

\* The characters of the byte values that the generated pages hold.
CharacterOf(byte) ==
  CASE byte = 92 -> "\\" [] byte = 46 -> "." [] byte = 95 -> "_"
    [] byte = 48 -> "0" [] byte = 49 -> "1" [] byte = 50 -> "2"
    [] byte = 67 -> "C" [] byte = 68 -> "D" [] byte = 78 -> "N"
    [] byte = 83 -> "S" [] byte = 97 -> "a" [] byte = 100 -> "d"
    [] byte = 101 -> "e" [] byte = 102 -> "f" [] byte = 108 -> "l"
    [] byte = 111 -> "o" [] byte = 114 -> "r" [] byte = 116 -> "t"
    [] byte = 117 -> "u"

\* IndexBinaryTreePage.__init__ and the seek of ReadPage.
NewPageReader(file_offset) ==
  [outcome |-> "reading", pos |-> file_offset, reads |-> <<>>,
   page_type |-> 0, root_page_number |-> 0, number_of_keys |-> 0,
   sub_pages_array |-> <<>>, sub_pages |-> <<>>,
   has_key_offsets |-> FALSE, key_offsets |-> <<>>,
   page_key_segments |-> <<>>, page_value_offsets |-> <<>>,
   page_values |-> <<>>, keys |-> <<>>]

\* file_object.read(size) of a section: the position moves by what was
\* read, which the log keeps with what was asked for.
ReadSection(file_size, rd, section, size) ==
  LET length == ReadLength(file_size, rd.pos, size)
  IN  [rd EXCEPT !.pos = @ + length,
                 !.reads = Append(@, [section |-> section, pos |-> rd.pos,
                                      size |-> size, length |-> length])]

\* The length of the read the reader made last.
LastLength(rd) == rd.reads[Len(rd.reads)].length

\* The position of the read the reader made last.
LastPos(rd) == rd.reads[Len(rd.reads)].pos

Raise(rd, exception) == [rd EXCEPT !.outcome = exception]

\* IndexBinaryTreePage._ReadHeader: _ReadStructure raises ParseError for a
\* header of fewer than 20 bytes.
ReadHeader(bytes, file_size, rd) ==
  LET r == ReadSection(file_size, rd, "page header", PAGE_HEADER_SIZE)
  IN  IF LastLength(r) # PAGE_HEADER_SIZE THEN Raise(r, "ParseError")
      ELSE [r EXCEPT !.page_type = Uint32At(bytes, rd.pos),
                     !.root_page_number = Uint32At(bytes, rd.pos + 12),
                     !.number_of_keys = Uint32At(bytes, rd.pos + 16)]

\* ReadPage lines 677-679: the unknown array of number_of_keys * 4 bytes,
\* read without a test of what was read.
ReadUnknownArray(file_size, rd) ==
  IF rd.outcome # "reading" \/ rd.number_of_keys = 0 THEN rd
  ELSE ReadSection(file_size, rd, "unknown array", rd.number_of_keys * 4)

\* IndexBinaryTreePage._ReadSubPages: number_of_keys + 1 entries, which
\* MapByteStream does not map when there are fewer bytes (ParseError).
\* The entries that are page numbers are appended to sub_pages.
ReadSubPagesArray(bytes, file_size, rd) ==
  IF rd.outcome # "reading" THEN rd
  ELSE
    LET number_of_entries == rd.number_of_keys + 1
        r == ReadSection(file_size, rd, "sub pages", number_of_entries * 4)
        sub_pages_array == [i \in 1..number_of_entries |->
                              Uint32At(bytes, rd.pos + 4 * (i - 1))]
    IN  IF LastLength(r) # number_of_entries * 4 THEN Raise(r, "ParseError")
        ELSE [r EXCEPT !.sub_pages_array = sub_pages_array,
                       !.sub_pages = @ \o ReadSubPages(sub_pages_array)]

\* IndexBinaryTreePage._ReadKeyOffsets: nothing for number_of_keys 0, which
\* leaves _key_offsets None.
ReadKeyOffsets(bytes, file_size, rd) ==
  IF rd.outcome # "reading" \/ rd.number_of_keys = 0 THEN rd
  ELSE
    LET r == ReadSection(file_size, rd, "key offsets", rd.number_of_keys * 2)
    IN  IF LastLength(r) # rd.number_of_keys * 2 THEN Raise(r, "ParseError")
        ELSE [r EXCEPT !.has_key_offsets = TRUE,
                       !.key_offsets = [i \in 1..rd.number_of_keys |->
                                          Uint16At(bytes, rd.pos + 2 * (i - 1))]]

\* cim_page_key mapped from the key data at offset from: the number of
\* segments and that many segment indexes, all before the end to.
PageKeyFits(bytes, from, to) ==
  /\ from + 2 <= to
  /\ from + 2 + 2 * Uint16At(bytes, from) <= to

PageKeySegments(bytes, from) ==
  [j \in 1..Uint16At(bytes, from) |-> Uint16At(bytes, from + 2 * j)]

\* IndexBinaryTreePage._ReadKeyData: the size in 16 bit units, for size 0
\* nothing more; else the key data as far as the file has it and the page
\* key at each key offset.  Iterating _key_offsets raises TypeError when it
\* is None; a page key that the key data does not hold raises ParseError.
\* The segments of each page key are appended to _page_key_segments, those
\* before a page key that raises included.
ReadKeyData(bytes, file_size, rd) ==
  IF rd.outcome # "reading" THEN rd
  ELSE
    LET r1 == ReadSection(file_size, rd, "key data size", UINT16LE_SIZE)
        key_data_size == Uint16At(bytes, rd.pos)
        r2 == ReadSection(file_size, r1, "key data", key_data_size * 2)
        from(i) == LastPos(r2) + rd.key_offsets[i] * 2
        to == LastPos(r2) + LastLength(r2)
        unmapped == {i \in 1..Len(rd.key_offsets) : ~PageKeyFits(bytes, from(i), to)}
        mapped == IF unmapped = {} THEN Len(rd.key_offsets)
                  ELSE SetMin(unmapped) - 1
        r3 == [r2 EXCEPT !.page_key_segments =
                 @ \o [i \in 1..mapped |-> PageKeySegments(bytes, from(i))]]
    IN  IF LastLength(r1) # UINT16LE_SIZE THEN Raise(r1, "ParseError")
        ELSE IF key_data_size = 0 THEN r1
        ELSE IF ~rd.has_key_offsets THEN Raise(r2, "TypeError")
        ELSE IF unmapped # {} THEN Raise(r3, "ParseError")
        ELSE r3

\* IndexBinaryTreePage._ReadValueOffsets, _ReadOffsetsTable: the number of
\* offsets and the offsets, ParseError when either is cut short.
ReadValueOffsets(bytes, file_size, rd) ==
  IF rd.outcome # "reading" THEN rd
  ELSE
    LET r1 == ReadSection(file_size, rd, "number of value offsets", UINT16LE_SIZE)
        number_of_offsets == Uint16At(bytes, rd.pos)
        r2 == ReadSection(file_size, r1, "value offsets",
                          number_of_offsets * UINT16LE_SIZE)
    IN  IF LastLength(r1) # UINT16LE_SIZE THEN Raise(r1, "ParseError")
        ELSE IF number_of_offsets = 0
          THEN [r1 EXCEPT !.page_value_offsets = <<>>]
        ELSE IF LastLength(r2) # number_of_offsets * UINT16LE_SIZE
          THEN Raise(r2, "ParseError")
        ELSE [r2 EXCEPT !.page_value_offsets =
                [i \in 1..number_of_offsets |->
                   Uint16At(bytes, LastPos(r2) + 2 * (i - 1))]]

\* The offsets from..(to - 1) that hold a 0 byte.
ZeroBytes(bytes, from, to) ==
  {i \in from..(Min(to, Len(bytes)) - 1) : bytes[i + 1] = 0}
    \cup (IF to > Len(bytes) /\ (IF from > Len(bytes) THEN from ELSE Len(bytes)) < to
            THEN {IF from > Len(bytes) THEN from ELSE Len(bytes)} ELSE {})

\* construct.CString parsed from the value data at offset from: the
\* characters before the first 0 byte.
CString(bytes, from, to) ==
  [i \in 1..(SetMin(ZeroBytes(bytes, from, to)) - from) |->
     CharacterOf(ByteAt(bytes, from + i - 1))]

\* IndexBinaryTreePage._ReadValueData: the size in bytes, for size 0
\* nothing more; else the value data as far as the file has it and the
\* string at each value offset.  A string without its 0 byte in the value
\* data is an error of construct, which ReadPage does not catch.  The
\* strings are appended to _page_values, those before a string that raises
\* included.
ReadValueData(bytes, file_size, rd) ==
  IF rd.outcome # "reading" THEN rd
  ELSE
    LET r1 == ReadSection(file_size, rd, "value data size", UINT16LE_SIZE)
        value_data_size == Uint16At(bytes, rd.pos)
        r2 == ReadSection(file_size, r1, "value data", value_data_size)
        from(i) == LastPos(r2) + rd.page_value_offsets[i]
        to == LastPos(r2) + LastLength(r2)
        unparsed == {i \in 1..Len(rd.page_value_offsets) :
                       ZeroBytes(bytes, from(i), to) = {}}
        parsed == IF unparsed = {} THEN Len(rd.page_value_offsets)
                  ELSE SetMin(unparsed) - 1
        r3 == [r2 EXCEPT !.page_values =
                 @ \o [i \in 1..parsed |-> CString(bytes, from(i), to)]]
    IN  IF LastLength(r1) # UINT16LE_SIZE THEN Raise(r1, "ParseError")
        ELSE IF value_data_size = 0 THEN r1
        ELSE IF unparsed # {} THEN Raise(r3, "ConstructError")
        ELSE r3

\* ReadPage lines 690-692: the rest of the page.  Behind the end of the
\* page the size is negative: read(-1) reads to the end of the file and
\* so does a read of a smaller size on a Python 2 file, Python 3 raises
\* ValueError for it (negative_read).
ReadTrailingData(file_size, file_offset, rd, negative_read) ==
  IF rd.outcome # "reading" THEN rd
  ELSE
    LET trailing_data_size == (file_offset + PAGE_SIZE) - rd.pos
        rest == IF rd.pos >= file_size THEN 0 ELSE file_size - rd.pos
    IN  IF trailing_data_size >= 0
          THEN ReadSection(file_size, rd, "trailing data", trailing_data_size)
        ELSE IF trailing_data_size = -1 \/ negative_read = "to the end"
          THEN [rd EXCEPT !.pos = @ + rest,
                          !.reads = Append(@, [section |-> "trailing data",
                                               pos |-> rd.pos,
                                               size |-> trailing_data_size,
                                               length |-> rest])]
        ELSE Raise(rd, "ValueError")

\* ReadPage lines 697-707: the key of each page key, its segments looked
\* up in the page values; IndexError for a segment index that is none.
\* keys is emptied first and holds the keys before one that raises.
BuildKeys(rd) ==
  IF rd.outcome # "reading" THEN rd
  ELSE
    LET missing == {i \in 1..Len(rd.page_key_segments) :
                      \E j \in 1..Len(rd.page_key_segments[i]) :
                        rd.page_key_segments[i][j] >= Len(rd.page_values)}
        built == IF missing = {} THEN Len(rd.page_key_segments)
                 ELSE SetMin(missing) - 1
        keys == [i \in 1..built |->
                   KeyPath([j \in 1..Len(rd.page_key_segments[i]) |->
                              rd.page_values[rd.page_key_segments[i][j] + 1]])]
    IN  [rd EXCEPT !.outcome = IF missing = {} THEN "page" ELSE "IndexError",
                   !.keys = keys]

\* ReadPage lines 668-707 on the page object rd, the file object at
\* file_offset.
ReadSections(rd, bytes, file_size, file_offset, negative_read) ==
  LET header == ReadHeader(bytes, file_size, rd)
      unknown == ReadUnknownArray(file_size, header)
      sub_pages == ReadSubPagesArray(bytes, file_size, unknown)
      key_offsets == ReadKeyOffsets(bytes, file_size, sub_pages)
      key_data == ReadKeyData(bytes, file_size, key_offsets)
      value_offsets == ReadValueOffsets(bytes, file_size, key_data)
      value_data == ReadValueData(bytes, file_size, value_offsets)
      trailing == ReadTrailingData(file_size, file_offset, value_data,
                                   negative_read)
  IN  BuildKeys(trailing)

\* The seek of ReadPage on a page object: what the object holds stays.
SeekPage(page, file_offset) ==
  [page EXCEPT !.outcome = "reading", !.pos = file_offset, !.reads = <<>>]

\* ReadPage on a page object that forgets what it held.
ReadPageOn_NewPage(page, bytes, file_size, file_offset, negative_read) ==
  ReadSections(NewPageReader(file_offset), bytes, file_size, file_offset,
               negative_read)

\* IndexBinaryTreePage.ReadPage on the page object page.
ReadPageOn(page, bytes, file_size, file_offset, negative_read) ==
  ReadSections(SeekPage(page, file_offset), bytes, file_size, file_offset,
               negative_read)

\* IndexBinaryTreeFile._ReadPage: index_page = IndexBinaryTreePage(...) and
\* index_page.ReadPage(file_object, file_offset).
ReadPage(bytes, file_size, file_offset, negative_read) ==
  ReadPageOn(NewPageReader(file_offset), bytes, file_size, file_offset,
             negative_read)

-----------------------------------------------------------------------------
(* Specification SpecPage: ReadPage on a generated page at offset 0 of     *)
(* Index.btr.                                                              *)

Uint16Bytes(v) == <<v % 256, v \div 256>>

Uint32Bytes(v) ==
  IF v = UNAVAILABLE THEN <<255, 255, 255, 255>>
  ELSE Uint16Bytes(v % 65536) \o Uint16Bytes(v \div 65536)

RECURSIVE Flatten(_)
Flatten(seqs) == IF seqs = <<>> THEN <<>> ELSE Head(seqs) \o Flatten(Tail(seqs))

\* The segment indexes of key i of a generated page: "root" and "default",
\* or "default" alone.
WrittenSegments(i) == IF i % 2 = 1 THEN <<0, 1>> ELSE <<1>>

\* The 16 bit unit of the key data at which key i starts.
WrittenKeyOffset(i) == 3 * ((i - 1) \div 2) + 2 * ((i - 1) \div 2) + 3 * ((i - 1) % 2)

\* The key data of n keys: of each the number of segments and the segments.
WrittenKeyData(n) ==
  Flatten([i \in 1..n |-> <<Len(WrittenSegments(i))>> \o WrittenSegments(i)])

\* "root" and "default", each with its 0 byte, and their offsets.
WrittenValueData == <<114, 111, 111, 116, 0, 100, 101, 102, 97, 117, 108, 116, 0>>

WrittenValueOffsets == <<0, 5>>

WrittenValues ==
  << <<"r", "o", "o", "t">>, <<"d", "e", "f", "a", "u", "l", "t">> >>

\* The ways a page is written.  number_of_keys and the sub pages array;
\* the key offsets in the order of the key data, reversed, or beyond the
\* key data; the key data with its size, with size 0 and no data, with a
\* size beyond the page, or (no keys) one unit of key data; no values or
\* the two, their data with its size, none, one byte short, beyond the
\* page, or ending one byte behind the page.
PageDescriptions ==
  UNION {[number_of_keys : {n},
          entries : [1..(n + 1) -> {0, 1, UNAVAILABLE}],
          key_offsets : IF n = 0 THEN {"in order"}
                        ELSE {"in order", "reversed", "beyond"},
          key_data : IF n = 0 THEN {"none", "one unit"}
                     ELSE {"written", "none", "beyond the page"},
          values : {"none", "written"},
          value_data : {"written", "none", "short", "beyond the page",
                        "one behind the page"}] : n \in 0..MaxKeys}

\* The bytes of the page up to its value data size.
PageBytesBeforeValueData(d) ==
  LET n == d.number_of_keys
      key_offset(i) ==
        IF d.key_offsets = "in order" THEN WrittenKeyOffset(i)
        ELSE IF d.key_offsets = "reversed" THEN WrittenKeyOffset(n + 1 - i)
        ELSE 100
      key_data == IF d.key_data = "none" THEN <<>>
                  ELSE IF d.key_data = "one unit" THEN <<0>>
                  ELSE WrittenKeyData(n)
      key_data_size == IF d.key_data = "beyond the page" THEN 5000
                       ELSE Len(key_data)
      value_offsets == IF d.values = "none" THEN <<>> ELSE WrittenValueOffsets
  IN  Uint32Bytes(PAGE_TYPE_ACTIVE) \o Uint32Bytes(1) \o Uint32Bytes(0)
        \o Uint32Bytes(0) \o Uint32Bytes(n)
        \o Flatten([i \in 1..n |-> Uint32Bytes(0)])
        \o Flatten([i \in 1..(n + 1) |-> Uint32Bytes(d.entries[i])])
        \o Flatten([i \in 1..n |-> Uint16Bytes(key_offset(i))])
        \o Uint16Bytes(key_data_size)
        \o Flatten([i \in 1..Len(key_data) |-> Uint16Bytes(key_data[i])])
        \o Uint16Bytes(Len(value_offsets))
        \o Flatten([i \in 1..Len(value_offsets) |-> Uint16Bytes(value_offsets[i])])

PageBytes(d) ==
  LET before == PageBytesBeforeValueData(d)
      value_data_size ==
        CASE d.value_data = "written" -> Len(WrittenValueData)
          [] d.value_data = "none" -> 0
          [] d.value_data = "short" -> Len(WrittenValueData) - 1
          [] d.value_data = "beyond the page" -> 9000
          [] d.value_data = "one behind the page" ->
               PAGE_SIZE + 1 - (Len(before) + 2)
  IN  before \o Uint16Bytes(value_data_size)
        \o (IF d.value_data = "none" THEN <<>> ELSE WrittenValueData)

\* Index.btr ends with the bytes written, is one page, a page and a byte,
\* or two pages.
PageFileSizes(bytes) == {Len(bytes), PAGE_SIZE, PAGE_SIZE + 1, 2 * PAGE_SIZE}

NoPageRead == [outcome |-> "new"]

PageIdle ==
  /\ pdesc = [number_of_keys |-> 0]
  /\ pbytes = <<>>
  /\ pfile_size = 0
  /\ ppage = [outcome |-> "idle"]

InitPage ==
  /\ pdesc \in PageDescriptions
  /\ pbytes = PageBytes(pdesc)
  /\ pfile_size \in PageFileSizes(pbytes)
  /\ ppage = NoPageRead

\* IndexBinaryTreeFile._ReadPage(0): a new page object and its ReadPage.
IndexReadPage(negative_read) ==
  /\ ppage = NoPageRead
  /\ ppage' = ReadPage(pbytes, pfile_size, 0, negative_read)
  /\ UNCHANGED <<pdesc, pbytes, pfile_size>>
  /\ UNCHANGED notPageVars

NextPage ==
  \E negative_read \in {"to the end", "ValueError"} : IndexReadPage(negative_read)

(* Claims under SpecPage *)

\* C11 as stated: a decoded index page has len(keys) + 1 == len(sub_pages)
\* when number_of_keys > 0 and one sub_pages entry when it is 0, the
\* entries 0 and 0xffffffff among them.
C11_SubPagesOnePerKeyPlusOne ==
  ppage.outcome = "page" =>
    /\ ppage.number_of_keys > 0 => Len(ppage.keys) + 1 = Len(ppage.sub_pages)
    /\ ppage.number_of_keys = 0 => Len(ppage.sub_pages) = 1
    /\ ppage.sub_pages = pdesc.entries

\* C11: the sub_pages of a decoded index page are the entries of its
\* number_of_keys + 1 sub pages array that are neither 0 nor 0xffffffff, in
\* the order of the array; so len(sub_pages) <= number_of_keys + 1, with
\* equality when no entry is 0 or 0xffffffff.
C11_SubPagesWithoutNoChild ==
  ppage.outcome = "page" =>
    /\ ppage.number_of_keys = pdesc.number_of_keys
    /\ ppage.sub_pages = SelectSeq(pdesc.entries, IsChild)
    /\ Len(ppage.sub_pages) <= ppage.number_of_keys + 1
    /\ (\A i \in 1..Len(pdesc.entries) : IsChild(pdesc.entries[i]))
         => Len(ppage.sub_pages) = ppage.number_of_keys + 1

\* A page of two keys is decoded, of its three sub pages array entries
\* the one that is a page number is kept.
C11_Witness ==
  /\ ppage.outcome = "page"
  /\ pdesc.entries = <<0, 1, UNAVAILABLE>>
  /\ ppage.sub_pages = <<1>>
  /\ Len(ppage.keys) = 2

\* The sections of which ReadPage has read at least one byte.
SectionsRead == {ppage.reads[i].section : i \in {j \in 1..Len(ppage.reads) :
                                                   ppage.reads[j].length > 0}}

\* C12: decoding a page whose header has number_of_keys 0 yields a page of
\* zero keys with one sub pages array entry read, and reads nothing of the
\* key offsets, the key data, the value offsets and the value data (their
\* 2 byte sizes apart).
C12_NoKeysReadsNoSections ==
  (ppage.outcome \notin {"new", "idle"} /\ pdesc.number_of_keys = 0) =>
    /\ ppage.outcome = "page"
    /\ ppage.keys = <<>>
    /\ Len(ppage.sub_pages_array) = 1
    /\ SectionsRead \cap {"key offsets", "key data", "value offsets",
                          "value data"} = {}

\* The key written as key i of the page: "\" before each of its values.
WrittenKey(i) ==
  LET segments == IF pdesc.key_offsets = "reversed"
                    THEN WrittenSegments(pdesc.number_of_keys + 1 - i)
                    ELSE WrittenSegments(i)
  IN  Flatten([j \in 1..Len(segments) |->
                 <<"\\">> \o WrittenValues[segments[j] + 1]])

\* C13: a decoded index page has number_of_keys keys, in the order of the
\* key offsets, and key i is "\" followed by the "\" joined values that
\* the segment indexes of key i select.
C13_KeysOfSegments ==
  ppage.outcome = "page" =>
    /\ Len(ppage.keys) = pdesc.number_of_keys
    /\ (pdesc.key_data = "written" /\ pdesc.key_offsets # "beyond"
          /\ pdesc.values = "written" /\ pdesc.value_data = "written")
         => \A i \in 1..Len(ppage.keys) : ppage.keys[i] = WrittenKey(i)

\* The reads of the sections whose size the page declares.
DeclaredReads ==
  {i \in 1..Len(ppage.reads) : ppage.reads[i].section # "trailing data"}

\* C14: when a size that the page declares exceeds the bytes that remain
\* in the 8192 byte page, ReadPage raises ParseError; a decoded page has
\* every declared section in full, and no read takes bytes from behind
\* the end of the page.
C14_DeclaredSizesWithinPage ==
  ppage.outcome \notin {"new", "idle"} =>
    /\ (\E i \in DeclaredReads :
          ppage.reads[i].pos + ppage.reads[i].size > PAGE_SIZE)
         => ppage.outcome = "ParseError"
    /\ ppage.outcome = "page" =>
         \A i \in DeclaredReads : ppage.reads[i].length = ppage.reads[i].size
    /\ \A i \in 1..Len(ppage.reads) :
         ppage.reads[i].pos + ppage.reads[i].length <= PAGE_SIZE

-----------------------------------------------------------------------------
(* ObjectsDataPage.ReadPage on the descriptors of Objects.data.  The file  *)
(* is its first units of 16 bytes, each a cim_object_descriptor, followed  *)
(* by 0 bytes up to its size.                                              *)

\* ObjectsDataPage._EMPTY_OBJECT_DESCRIPTOR mapped: every member 0.
EMPTY_OBJECT_DESCRIPTOR ==
  [identifier |-> 0, data_offset |-> 0, data_size |-> 0, data_checksum |-> 0]

\* The descriptor at the 16 byte aligned offset pos.
DescriptorAt(slots, pos) ==
  IF pos \div OBJECT_DESCRIPTOR_SIZE < Len(slots)
    THEN slots[(pos \div OBJECT_DESCRIPTOR_SIZE) + 1]
    ELSE EMPTY_OBJECT_DESCRIPTOR

\* The 16 bytes read at offset pos end the loop of _ReadObjectDescriptors:
\* they are the empty descriptor, or they are fewer than 16.
EndsDescriptors(slots, file_size, pos) ==
  \/ ReadLength(file_size, pos, OBJECT_DESCRIPTOR_SIZE) # OBJECT_DESCRIPTOR_SIZE
  \/ DescriptorAt(slots, pos) = EMPTY_OBJECT_DESCRIPTOR

\* ObjectsDataPage._ReadObjectDescriptors and _ReadObjectDescriptor: 16
\* bytes are read and appended as a descriptor until they are the empty
\* descriptor; fewer than 16 bytes, at the end of the file, are not mapped
\* (ParseError).  Nothing ends the loop at the end of the page: it ends
\* with read number last, the first that EndsDescriptors.  The descriptors
\* are appended to _object_descriptors.
ReadObjectDescriptors(slots, file_size, page) ==
  LET at(k) == page.pos + OBJECT_DESCRIPTOR_SIZE * (k - 1)
      last == SetMin({k \in 1..((file_size - page.pos) \div OBJECT_DESCRIPTOR_SIZE + 1) :
                        EndsDescriptors(slots, file_size, at(k))})
      short == ReadLength(file_size, at(last), OBJECT_DESCRIPTOR_SIZE)
                 # OBJECT_DESCRIPTOR_SIZE
  IN  [page EXCEPT
         !.outcome = IF short THEN "ParseError" ELSE "page",
         !.reads = last,
         !.pos = IF short THEN file_size ELSE at(last) + OBJECT_DESCRIPTOR_SIZE,
         !.object_descriptors =
           @ \o [k \in 1..(last - 1) |-> DescriptorAt(slots, at(k))]]

\* ObjectsDataPage.__init__: no descriptors, page_offset None (0 here).
NewObjectsPage ==
  [outcome |-> "page", page_offset |-> 0, pos |-> 0, reads |-> 0,
   object_descriptors |-> <<>>]

\* ObjectsDataPage.ReadPage on the page object page: the seek, page_offset,
\* and the descriptors unless the page is a data page.  reads counts the
\* descriptors read by the call and pos is the position of the file object.
ObjectsPageReadPageOn(page, slots, file_size, file_offset, data_page) ==
  LET sought == [page EXCEPT !.outcome = "page", !.page_offset = file_offset,
                             !.pos = file_offset, !.reads = 0]
  IN  IF data_page THEN sought
      ELSE ReadObjectDescriptors(slots, file_size, sought)

\* ObjectsDataFile._ReadPage: objects_page = ObjectsDataPage(...) and
\* objects_page.ReadPage(file_object, file_offset, data_page=data_page).
ObjectsPageReadPage(slots, file_size, file_offset, data_page) ==
  ObjectsPageReadPageOn(NewObjectsPage, slots, file_size, file_offset,
                        data_page)

-----------------------------------------------------------------------------
(* Specification SpecDesc: ReadPage on a generated Objects.data.           *)

\* The descriptors a page has room for.
DescriptorsPerPage == PAGE_SIZE \div OBJECT_DESCRIPTOR_SIZE

\* Descriptor i of a generated file.
WrittenDescriptor(i) ==
  [identifier |-> i, data_offset |-> 32, data_size |-> 1, data_checksum |-> 7]

\* The descriptors at the start of a generated file: none, a few, a page
\* less one, a whole page, a page and one.
WrittenRuns ==
  {0, 1, 2, DescriptorsPerPage - 1, DescriptorsPerPage, DescriptorsPerPage + 1}

\* What follows them: nothing but 0 bytes, or the empty descriptor and one
\* more descriptor.
WrittenSlots ==
  {[i \in 1..n |-> WrittenDescriptor(i)] \o tail :
     n \in WrittenRuns,
     tail \in {<<>>, <<EMPTY_OBJECT_DESCRIPTOR, WrittenDescriptor(9)>>}}

\* The file ends with what was written, 8 bytes or 16 bytes further, or is
\* of one, two or three pages.
SlotsFileSizes(slots) ==
  {OBJECT_DESCRIPTOR_SIZE * Len(slots), OBJECT_DESCRIPTOR_SIZE * Len(slots) + 8,
   OBJECT_DESCRIPTOR_SIZE * (Len(slots) + 1), PAGE_SIZE, 2 * PAGE_SIZE,
   3 * PAGE_SIZE}

DescIdle ==
  /\ oslots = <<>>
  /\ oslots_size = 0
  /\ ocall = [file_offset |-> 0, data_page |-> FALSE]
  /\ opage = [outcome |-> "idle"]

\* ObjectsDataFile._GetPage has found file_offset within the file.
InitDesc ==
  /\ oslots \in WrittenSlots
  /\ oslots_size \in SlotsFileSizes(oslots)
  /\ ocall \in [file_offset : {0, PAGE_SIZE}, data_page : BOOLEAN]
  /\ ocall.file_offset < oslots_size
  /\ opage = [outcome |-> "new"]

\* ObjectsDataFile._ReadPage(file_offset, data_page)
ObjectsReadPage ==
  /\ opage = [outcome |-> "new"]
  /\ opage' = ObjectsPageReadPage(oslots, oslots_size, ocall.file_offset,
                                  ocall.data_page)
  /\ UNCHANGED <<oslots, oslots_size, ocall>>
  /\ UNCHANGED notDescVars

NextDesc == ObjectsReadPage

(* Claims under SpecDesc *)

\* The units of 16 bytes of the page at file_offset, as far as the file
\* has them in full.
PageUnits ==
  {k \in 0..(DescriptorsPerPage - 1) :
     ocall.file_offset + OBJECT_DESCRIPTOR_SIZE * (k + 1) <= oslots_size}

\* The units of the page that hold the empty descriptor.
EmptyUnits ==
  {k \in PageUnits :
     DescriptorAt(oslots, ocall.file_offset + OBJECT_DESCRIPTOR_SIZE * k)
       = EMPTY_OBJECT_DESCRIPTOR}

\* C16: a page decoded as a descriptor page holds, in order, the
\* descriptors before the first empty descriptor of the page, all those of
\* the page when it has none; no descriptor is read from behind the end
\* of the page; a page decoded as a data page reads no descriptor.
C16_DescriptorsOfThePage ==
  opage.outcome \notin {"new", "idle"} =>
    /\ ocall.data_page => (opage.reads = 0 /\ opage.object_descriptors = <<>>)
    /\ opage.pos <= ocall.file_offset + PAGE_SIZE
    /\ (~ocall.data_page /\ Cardinality(PageUnits) = DescriptorsPerPage) =>
         LET count == IF EmptyUnits = {} THEN DescriptorsPerPage
                      ELSE SetMin(EmptyUnits)
         IN  /\ opage.outcome = "page"
             /\ opage.object_descriptors =
                  [i \in 1..count |->
                     DescriptorAt(oslots, ocall.file_offset
                                          + OBJECT_DESCRIPTOR_SIZE * (i - 1))]

-----------------------------------------------------------------------------
(* ObjectRecord.  A 32 bit member whose high bits matter is kept as its    *)
(* two 16 bit halves [hi, lo].  Of the data of a class definition the      *)
(* model keeps the properties_block_size member, the number of bytes that  *)
(* follow it, and the type member of the definition of its one property.   *)

\* ObjectRecord.DATA_TYPE_CLASS_DEFINITION
DATA_TYPE_CLASS_DEFINITION == <<"C", "D">>

\* ObjectRecord._PROPERTY_TYPE_VALUE_SIZES
PROPERTY_TYPE_VALUE_SIZES ==
  (2 :> 2) @@ (3 :> 4) @@ (4 :> 4) @@ (5 :> 8) @@ (8 :> 0) @@ (11 :> 2)
    @@ (13 :> 0) @@ (16 :> 1) @@ (17 :> 1) @@ (18 :> 2) @@ (19 :> 4)
    @@ (20 :> 8) @@ (21 :> 8) @@ (101 :> 0) @@ (102 :> 2) @@ (103 :> 2)

\* The bytes of the property name (flags, "a", 0) and of the property
\* definition (type, index, offset, level, qualifiers_block_size) that the
\* properties block of a generated class definition holds.
WrittenPropertyBytes == 3 + 18

\* _CLASS_DEFINITION_HEADER: the length of properties_block_data,
\* properties_block_size & 0x7ffffff.
PropertiesBlockLength_Mask31(properties_block_size) ==
  (properties_block_size.hi % 32768) * 65536 + properties_block_size.lo

PropertiesBlockLength(properties_block_size) ==
  (properties_block_size.hi % 2048) * 65536 + properties_block_size.lo

\* _ReadClassDefinitionProperties line 1619: the value size of the
\* property type, _PROPERTY_TYPE_VALUE_SIZES.get(type & 0x1fff, None).
PropertyValueSize(property_type) ==
  IF (property_type % 8192) \in DOMAIN PROPERTY_TYPE_VALUE_SIZES
    THEN [known |-> TRUE, size |-> PROPERTY_TYPE_VALUE_SIZES[property_type % 8192]]
    ELSE [known |-> FALSE, size |-> 0]

\* The bytes of the members of fixed size of _CLASS_DEFINITION_OBJECT_RECORD,
\* of _INTERFACE_OBJECT_RECORD and of _REGISTRATION_OBJECT_RECORD.
CLASS_DEFINITION_OBJECT_RECORD_SIZE == 16

INTERFACE_OBJECT_RECORD_SIZE == 84

REGISTRATION_OBJECT_RECORD_SIZE == 24

\* What a reader did that did not get to the properties block.
ReadResult(outcome, reader) ==
  [outcome |-> outcome, reader |-> reader, properties_block_length |-> -1,
   property_value_size |-> [known |-> FALSE, size |-> 0]]

\* _ReadClassDefinition, _ReadClassDefinitionHeader and
\* _ReadClassDefinitionProperties: construct raises FieldError (ParseError)
\* for data shorter than the members of the record, for a properties block
\* longer than the data, and for a property name or definition that the
\* block does not hold in full.
ReadClassDefinition(data) ==
  LET length == PropertiesBlockLength(data.properties_block_size)
  IN  IF data.length < CLASS_DEFINITION_OBJECT_RECORD_SIZE
          \/ length > data.remaining
        THEN ReadResult("ParseError", "class definition")
      ELSE IF length < WrittenPropertyBytes
        THEN [ReadResult("ParseError", "class definition")
                EXCEPT !.properties_block_length = length]
      ELSE [ReadResult("returned", "class definition")
              EXCEPT !.properties_block_length = length,
                     !.property_value_size =
                       PropertyValueSize(data.property_type)]

\* _ReadInterface
ReadInterface(data) ==
  IF data.length < INTERFACE_OBJECT_RECORD_SIZE
    THEN ReadResult("ParseError", "interface")
    ELSE ReadResult("returned", "interface")

\* _ReadRegistration
ReadRegistration(data) ==
  IF data.length < REGISTRATION_OBJECT_RECORD_SIZE
    THEN ReadResult("ParseError", "registration")
    ELSE ReadResult("returned", "registration")

ObjectRecordRead_WhateverDebug(data_type, data, debug) ==
  IF data_type = DATA_TYPE_CLASS_DEFINITION THEN ReadClassDefinition(data)
  ELSE IF data_type \in {<<"I">>, <<"I", "L">>} THEN ReadInterface(data)
  ELSE IF data_type = <<"R">> THEN ReadRegistration(data)
  ELSE ReadResult("returned", "none")

\* ObjectRecord.Read: with debug the reader of the data type, without
\* debug nothing.
ObjectRecordRead(data_type, data, debug) ==
  IF ~debug THEN ReadResult("returned", "none")
  ELSE IF data_type = DATA_TYPE_CLASS_DEFINITION THEN ReadClassDefinition(data)
  ELSE IF data_type \in {<<"I">>, <<"I", "L">>} THEN ReadInterface(data)
  ELSE IF data_type = <<"R">> THEN ReadRegistration(data)
  ELSE ReadResult("returned", "none")

-----------------------------------------------------------------------------
(* Specification SpecRead: Read on the record that GetObjectRecordByKey    *)
(* returns for a key, as Main calls it.                                    *)

\* The names of the generated keys, the value before the first ".".
RecordNames ==
  {<<"C", "D", "_", "x">>, <<"I", "_", "x">>, <<"I", "L", "_", "x">>,
   <<"R", "_", "x">>, <<"N", "S", "_", "x">>, <<"C", "_", "D">>,
   <<"C", "D", "x">>, <<"C", "D">>}

\* The 16 bit halves of the generated properties_block_size members.
SizeHalves == {0, 1, 21, 2047, 2048, 32767, 32768, 65535}

\* The property types of the generated definitions: the types of the
\* table, their arrays (0x2000), and types that are not in the table.
PropertyTypes ==
  DOMAIN PROPERTY_TYPE_VALUE_SIZES
    \cup {8192 + t : t \in DOMAIN PROPERTY_TYPE_VALUE_SIZES}
    \cup {0, 6, 104, 8192 + 6, 16384 + 8}

RecordData ==
  [length : {0, 200},
   properties_block_size : [hi : SizeHalves, lo : {0, 21, 100}],
   remaining : {0, 21, 100},
   property_type : PropertyTypes]

ReadIdle ==
  /\ orecord = [data_type |-> <<>>]
  /\ oread = [outcome |-> "idle"]

\* GetObjectRecordByKey line 2134-2136: the ObjectRecord of the data type
\* of the key, of the data read, with the debug of the repository.
InitRead ==
  /\ \E name \in RecordNames, data \in RecordData, debug \in BOOLEAN :
       orecord = [data_type |-> PartitionHead(name, "_"), data |-> data,
                  debug |-> debug]
  /\ oread = [outcome |-> "new"]

\* Main: object_record.Read()
CallObjectRecordRead ==
  /\ oread = [outcome |-> "new"]
  /\ oread' = ObjectRecordRead(orecord.data_type, orecord.data, orecord.debug)
  /\ UNCHANGED orecord
  /\ UNCHANGED notReadVars

NextRead == CallObjectRecordRead

\* The reader that the data type of a record stands for.
ReaderOfDataType(data_type) ==
  IF data_type = <<"C", "D">> THEN "class definition"
  ELSE IF data_type \in {<<"I">>, <<"I", "L">>} THEN "interface"
  ELSE IF data_type = <<"R">> THEN "registration"
  ELSE "none"

ObjectRecordWasRead == oread.outcome \in {"returned", "ParseError"}

\* C17 as stated: a record is decoded by the reader of its type prefix, CD
\* as a class definition, I and IL as an interface, R as a registration,
\* anything else not at all, whatever the settings of the repository.
C17_DecodedByPrefixWhateverSettings ==
  ObjectRecordWasRead => oread.reader = ReaderOfDataType(orecord.data_type)

\* C17: with debug set a record is decoded by the reader of its type
\* prefix, CD as a class definition, I and IL as an interface, R as a
\* registration, anything else not at all; without debug no record is
\* decoded and Read raises nothing.
C17_DecodedByPrefixWithDebug ==
  ObjectRecordWasRead =>
    /\ orecord.debug => oread.reader = ReaderOfDataType(orecord.data_type)
    /\ ~orecord.debug => oread = ReadResult("returned", "none")

C17_Witness ==
  /\ oread.outcome = "returned"
  /\ orecord.debug
  /\ orecord.data_type = <<"C", "D">>
  /\ oread.reader = "class definition"

PropertiesBlockRead ==
  /\ ObjectRecordWasRead
  /\ oread.reader = "class definition"
  /\ oread.properties_block_length # -1

\* C18: the bytes taken as the properties block of a class definition are
\* properties_block_size & 0x7fffffff, for every value of the member.
C18_PropertiesBlockWithoutTopBit ==
  PropertiesBlockRead =>
    oread.properties_block_length =
      PropertiesBlockLength_Mask31(orecord.data.properties_block_size)

PropertyRead == oread.outcome = "returned" /\ oread.reader = "class definition"

\* The string, object, datetime and reference types.
VariableSizeTypes == {8, 13, 101, 102}

\* C19: the value size of a property is that of the table for type &
\* 0x1fff, and the table has 0 for the string, object, datetime and
\* reference types and only for them.
C19_ValueSizeOfTheTable ==
  PropertyRead =>
    LET type == orecord.data.property_type % 8192
    IN  /\ oread.property_value_size.known
              <=> type \in DOMAIN PROPERTY_TYPE_VALUE_SIZES
        /\ oread.property_value_size.known =>
             /\ oread.property_value_size.size = PROPERTY_TYPE_VALUE_SIZES[type]
             /\ oread.property_value_size.size = 0
                  <=> type \in VariableSizeTypes

-----------------------------------------------------------------------------
(* CIMRepository.Open and CIMRepository.Close.  A file of the repository   *)
(* is 0 for None and otherwise the place in cobjects of the MappingFile,   *)
(* IndexBinaryTreeFile or ObjectsDataFile; an object without __len__ and   *)
(* __bool__ is true.                                                       *)

\* CIMRepository.__init__
NewRepository(debug) ==
  [debug |-> debug, index_binary_tree_file |-> 0, index_mapping_file |-> 0,
   objects_data_file |-> 0, objects_mapping_file |-> 0]

\* MappingFile.__init__, IndexBinaryTreeFile.__init__ and
\* ObjectsDataFile.__init__; mapping_file is the MappingFile that the
\* constructor of the other two is given (0 for a MappingFile), Close_calls
\* and file_closes count the calls of Close of the object and of close of
\* its file.
NewFile(class, mapping_file) ==
  [class |-> class, mapping_file |-> mapping_file, file_object |-> "None",
   file_object_opened_in_object |-> FALSE, Close_calls |-> 0,
   file_closes |-> 0]

\* The files in the order in which Open opens them.
OpenOrder ==
  << [file |-> "index_mapping_file", class |-> "MappingFile",
      mapping_file |-> "none"],
     [file |-> "index_binary_tree_file", class |-> "IndexBinaryTreeFile",
      mapping_file |-> "index_mapping_file"],
     [file |-> "objects_mapping_file", class |-> "MappingFile",
      mapping_file |-> "none"],
     [file |-> "objects_data_file", class |-> "ObjectsDataFile",
      mapping_file |-> "objects_mapping_file"] >>

\* The files in the order in which Close closes them.
CloseOrder ==
  << "index_binary_tree_file", "index_mapping_file", "objects_data_file",
     "objects_mapping_file" >>

NoFailure == [component |-> 0, step |-> "none"]

\* Where Open can raise: glob finds no file of the name ("glob",
\* IndexError), os.stat or open fail ("open"), or the Open of the file
\* reads something it cannot parse ("read": a MappingFile always reads, an
\* IndexBinaryTreeFile reads its pages with debug, an ObjectsDataFile reads
\* nothing).
OpenFailures(debug) ==
  {failure \in [component : 1..4, step : {"glob", "open", "read"}] :
     failure.step = "read" =>
       \/ OpenOrder[failure.component].class = "MappingFile"
       \/ OpenOrder[failure.component].class = "IndexBinaryTreeFile" /\ debug}

\* One file of CIMRepository.Open: glob, the new object stored in the
\* repository, and its Open.
OpenFile(st, component, failure) ==
  LET file == OpenOrder[component].file
      fails(step) == failure.component = component /\ failure.step = step
      mapping_file == IF OpenOrder[component].mapping_file = "none" THEN 0
                      ELSE st.repository[OpenOrder[component].mapping_file]
      created == [st EXCEPT !.objects =
                              Append(@, NewFile(OpenOrder[component].class,
                                                mapping_file)),
                            !.repository[file] = Len(st.objects) + 1]
      n == Len(created.objects)
      opened == [created EXCEPT !.objects[n].file_object = "open",
                   !.objects[n].file_object_opened_in_object = TRUE]
  IN  IF st.outcome # "running" THEN st
      ELSE IF fails("glob") THEN [st EXCEPT !.outcome = "IndexError"]
      ELSE IF fails("open") THEN [created EXCEPT !.outcome = "OSError"]
      ELSE IF fails("read") THEN [opened EXCEPT !.outcome = "ParseError"]
      ELSE opened

\* The objects that the repository refers to, itself or through one of
\* its files.
Referenced(repository, objects) ==
  LET files == {repository[CloseOrder[i]] : i \in 1..4} \ {0}
  IN  files \cup ({objects[n].mapping_file : n \in files} \ {0})

\* What becomes of the objects that nothing refers to any more: with
\* reference counts (CPython) they are deallocated at once and a file
\* object that is still open is closed by its deallocation, with another
\* collector they stay as they are for as long as it likes.
Unreferenced(repository, objects, reference_counts) ==
  [n \in 1..Len(objects) |->
     IF reference_counts /\ n \notin Referenced(repository, objects)
          /\ objects[n].file_object = "open"
       THEN [objects[n] EXCEPT !.file_object = "deallocated"]
       ELSE objects[n]]

\* CIMRepository.Open
RepositoryOpen(repository, objects, failure, reference_counts) ==
  LET st0 == [repository |-> repository, objects |-> objects,
              outcome |-> "running"]
      st4 == OpenFile(OpenFile(OpenFile(OpenFile(st0, 1, failure),
                                        2, failure), 3, failure), 4, failure)
      st5 == [st4 EXCEPT !.objects =
                Unreferenced(st4.repository, @, reference_counts)]
  IN  IF st5.outcome = "running" THEN [st5 EXCEPT !.outcome = "returned"]
      ELSE st5

CloseFile_KeepFile(st, file) ==
  LET n == st.repository[file]
      object == st.objects[n]
  IN  IF st.outcome # "running" \/ n = 0 THEN st
      ELSE IF object.file_object_opened_in_object
                /\ object.file_object = "None"
        THEN [st EXCEPT !.objects[n].Close_calls = @ + 1,
                        !.outcome = "AttributeError"]
      ELSE [st EXCEPT !.objects[n] =
                        [object EXCEPT
                           !.Close_calls = @ + 1,
                           !.file_closes =
                             IF object.file_object_opened_in_object
                               THEN @ + 1 ELSE @,
                           !.file_object = "None"]]

\* One file of CIMRepository.Close: the Close of a file that is set, which
\* closes the file object it opened (None.close() raises AttributeError),
\* and None for the file.
CloseFile(st, file) ==
  LET n == st.repository[file]
      object == st.objects[n]
  IN  IF st.outcome # "running" \/ n = 0 THEN st
      ELSE IF object.file_object_opened_in_object
                /\ object.file_object = "None"
        THEN [st EXCEPT !.objects[n].Close_calls = @ + 1,
                        !.outcome = "AttributeError"]
      ELSE [st EXCEPT !.objects[n] =
                        [object EXCEPT
                           !.Close_calls = @ + 1,
                           !.file_closes =
                             IF object.file_object_opened_in_object
                               THEN @ + 1 ELSE @,
                           !.file_object = "None"],
                      !.repository[file] = 0]

\* CIMRepository.Close
RepositoryClose(repository, objects) ==
  LET st0 == [repository |-> repository, objects |-> objects,
              outcome |-> "running"]
      st4 == CloseFile(CloseFile(CloseFile(CloseFile(st0, CloseOrder[1]),
                                           CloseOrder[2]), CloseOrder[3]),
                       CloseOrder[4])
  IN  IF st4.outcome = "running" THEN [st4 EXCEPT !.outcome = "returned"]
      ELSE st4

-----------------------------------------------------------------------------
(* Specification SpecClose: Open and Close called on one CIMRepository in  *)
(* any order.                                                              *)

CloseIdle ==
  /\ crepository = NewRepository(FALSE)
  /\ cobjects = <<>>
  /\ ccalls = <<>>

InitClose ==
  /\ crepository \in {NewRepository(debug) : debug \in BOOLEAN}
  /\ cobjects = <<>>
  /\ ccalls = <<>>

\* cim_repository.Open(path)
CallOpen ==
  /\ Len(ccalls) < MaxCalls
  /\ \E failure \in OpenFailures(crepository.debug) \cup {NoFailure},
        reference_counts \in BOOLEAN :
       LET result == RepositoryOpen(crepository, cobjects, failure,
                                    reference_counts)
       IN  /\ crepository' = result.repository
           /\ cobjects' = result.objects
           /\ ccalls' = Append(ccalls, [call |-> "Open",
                                        outcome |-> result.outcome])
  /\ UNCHANGED notCloseVars

\* cim_repository.Close()
CallClose ==
  /\ Len(ccalls) < MaxCalls
  /\ LET result == RepositoryClose(crepository, cobjects)
     IN  /\ crepository' = result.repository
         /\ cobjects' = result.objects
         /\ ccalls' = Append(ccalls, [call |-> "Close",
                                      outcome |-> result.outcome])
  /\ UNCHANGED notCloseVars

NextClose == CallOpen \/ CallClose

\* A Close that is the first call made on the repository, or that follows
\* a Close with no Open in between.
CloseWithNothingOpen ==
  /\ Len(ccalls') = Len(ccalls) + 1
  /\ ccalls'[Len(ccalls')].call = "Close"
  /\ ccalls = <<>> \/ ccalls[Len(ccalls)].call = "Close"

\* C20: a Close of a repository that was never opened, and a Close after
\* a Close, raises nothing, closes no file and changes nothing; no file
\* is closed twice.
C20_CloseIsIdempotent ==
  [][/\ CloseWithNothingOpen =>
          /\ ccalls'[Len(ccalls')].outcome = "returned"
          /\ crepository' = crepository
          /\ cobjects' = cobjects
     /\ \A n \in 1..Len(cobjects') :
          cobjects'[n].Close_calls <= 1 /\ cobjects'[n].file_closes <= 1]_vars

C20_Witness ==
  /\ Len(ccalls) >= 3
  /\ ccalls[1] = [call |-> "Open", outcome |-> "returned"]
  /\ ccalls[2].call = "Close"
  /\ ccalls[3].call = "Close"
  /\ \A n \in 1..4 : cobjects[n].file_closes = 1

\* An Open that raised.
OpenRaised ==
  /\ Len(ccalls') = Len(ccalls) + 1
  /\ ccalls'[Len(ccalls')].call = "Open"
  /\ ccalls'[Len(ccalls')].outcome # "returned"

\* C21: when Open raises, every file object that this Open opened is
\* closed by the time the caller has the exception.
C21_FailedOpenLeavesNoFileOpen ==
  [][OpenRaised =>
       \A n \in (Len(cobjects) + 1)..Len(cobjects') :
         cobjects'[n].file_object # "open"]_vars

\* C28: after a Close, whatever calls of Open and Close came before it, no
\* file object that an Open opened is still open.
C28_NoFileOpenAfterClose ==
  (ccalls # <<>> /\ ccalls[Len(ccalls)].call = "Close") =>
    \A n \in 1..Len(cobjects) : cobjects[n].file_object # "open"

-----------------------------------------------------------------------------
(* CIMRepository.Open: the four files of the directory, found with         *)
(* glob.glob(pattern)[0].  A name is a sequence of characters, a pattern   *)
(* a sequence of the sets of characters of its [..] and of the characters  *)
(* that stand for themselves.                                              *)

\* The letters of the names, in lower and in upper case.
Letters ==
  << <<"a", "A">>, <<"b", "B">>, <<"c", "C">>, <<"d", "D">>, <<"e", "E">>,
     <<"i", "I">>, <<"j", "J">>, <<"m", "M">>, <<"n", "N">>, <<"o", "O">>,
     <<"p", "P">>, <<"r", "R">>, <<"s", "S">>, <<"t", "T">>, <<"x", "X">> >>

\* str.lower and str.upper of one character
Lower(c) ==
  IF \E i \in 1..Len(Letters) : Letters[i][2] = c
    THEN Letters[CHOOSE i \in 1..Len(Letters) : Letters[i][2] = c][1]
    ELSE c

Upper(c) ==
  IF \E i \in 1..Len(Letters) : Letters[i][1] = c
    THEN Letters[CHOOSE i \in 1..Len(Letters) : Letters[i][1] = c][2]
    ELSE c

\* The patterns of Open, lines 2283, 2293, 2304 and 2314:
\* [Ii][Nn][Dd][Ee][Xx].[Mm][Aa][Pp], [Ii][Nn][Dd][Ee][Xx].[Bb][Tt][Rr],
\* [Oo][Bb][Jj][Ee][Cc][Tt][Ss].[Mm][Aa][Pp] and
\* [Oo][Bb][Jj][Ee][Cc][Tt][Ss].[Da][Aa][Tt][Aa].
OpenPatterns ==
  << << {"I", "i"}, {"N", "n"}, {"D", "d"}, {"E", "e"}, {"X", "x"}, {"."},
        {"M", "m"}, {"A", "a"}, {"P", "p"} >>,
     << {"I", "i"}, {"N", "n"}, {"D", "d"}, {"E", "e"}, {"X", "x"}, {"."},
        {"B", "b"}, {"T", "t"}, {"R", "r"} >>,
     << {"O", "o"}, {"B", "b"}, {"J", "j"}, {"E", "e"}, {"C", "c"},
        {"T", "t"}, {"S", "s"}, {"."}, {"M", "m"}, {"A", "a"}, {"P", "p"} >>,
     << {"O", "o"}, {"B", "b"}, {"J", "j"}, {"E", "e"}, {"C", "c"},
        {"T", "t"}, {"S", "s"}, {"."}, {"D", "a"}, {"A", "a"}, {"T", "t"},
        {"A", "a"} >> >>

\* fnmatch.filter: os.path.normcase, which lowers the case of the pattern
\* and of the name on "nt" and leaves them as they are on "posix", and
\* then the match character by character.
FnMatch(name, pattern, platform) ==
  /\ Len(name) = Len(pattern)
  /\ \A i \in 1..Len(name) :
       IF platform = "nt"
         THEN Lower(name[i]) \in {Lower(c) : c \in pattern[i]}
         ELSE name[i] \in pattern[i]

\* glob.glob(os.path.join(path, pattern)): the names of the directory
\* that match.
Glob(directory, pattern, platform) ==
  {name \in directory : FnMatch(name, pattern, platform)}

\* The patterns for which glob finds nothing.
NotFound(directory, platform) ==
  {component \in 1..4 : Glob(directory, OpenPatterns[component], platform) = {}}

\* CIMRepository.Open(path) of a new repository on a directory of readable
\* and well-formed files: [0] of an empty list raises IndexError.
OpenDirectory(directory, platform, names) ==
  LET failure == IF NotFound(directory, platform) = {} THEN NoFailure
                 ELSE [component |-> SetMin(NotFound(directory, platform)),
                       step |-> "glob"]
      result == RepositoryOpen(NewRepository(FALSE), <<>>, failure, FALSE)
  IN  [outcome |-> result.outcome,
       names |-> SubSeq(names, 1, Len(result.objects)),
       files |-> [n \in 1..Len(result.objects) |->
                    result.objects[n].file_object]]

-----------------------------------------------------------------------------
(* Specification SpecGlob: Open on a directory that holds one spelling of  *)
(* each of the four file names.                                            *)

FileNames ==
  << <<"i", "n", "d", "e", "x", ".", "m", "a", "p">>,
     <<"i", "n", "d", "e", "x", ".", "b", "t", "r">>,
     <<"o", "b", "j", "e", "c", "t", "s", ".", "m", "a", "p">>,
     <<"o", "b", "j", "e", "c", "t", "s", ".", "d", "a", "t", "a">> >>

\* The spellings of a name: all in lower case, all in upper case, the
\* first letter in upper case, the first letter of the extension in upper
\* case, and all but that letter in upper case.
Spellings(name) ==
  LET extension == SetMin({i \in 1..Len(name) : name[i] = "."}) + 1
      upper == {{}, 1..Len(name), {1}, {extension},
                (1..Len(name)) \ {extension}}
  IN  {[i \in 1..Len(name) |-> IF i \in u THEN Upper(name[i]) ELSE name[i]] :
         u \in upper}

GlobIdle ==
  /\ gdirectory = <<>>
  /\ gplatform = "posix"
  /\ gopen = [outcome |-> "idle"]

InitGlob ==
  /\ \E index_map \in Spellings(FileNames[1]),
        index_btr \in Spellings(FileNames[2]),
        objects_map \in Spellings(FileNames[3]),
        objects_data \in Spellings(FileNames[4]) :
       gdirectory = <<index_map, index_btr, objects_map, objects_data>>
  /\ gplatform \in {"posix", "nt"}
  /\ gopen = [outcome |-> "new"]

\* cim_repository.Open(path)
CallOpenDirectory ==
  /\ gopen = [outcome |-> "new"]
  /\ \E names \in {s \in [1..4 -> {gdirectory[n] : n \in 1..4}] :
                     \A n \in 1..4 :
                       \/ FnMatch(s[n], OpenPatterns[n], gplatform)
                       \/ /\ n \in NotFound({gdirectory[k] : k \in 1..4},
                                            gplatform)
                          /\ s[n] = gdirectory[n]} :
       gopen' = OpenDirectory({gdirectory[n] : n \in 1..4}, gplatform, names)
  /\ UNCHANGED <<gdirectory, gplatform>>
  /\ UNCHANGED notGlobVars

NextGlob == CallOpenDirectory

\* C22: Open finds and opens each of the four files under every spelling
\* of its name in upper and lower case, the all lower case one included.
C22_FilesFoundInAnyCase ==
  gopen.outcome \notin {"idle", "new"} =>
    /\ gopen.outcome = "returned"
    /\ gopen.names = gdirectory
    /\ \A n \in 1..4 : gopen.files[n] = "open"

-----------------------------------------------------------------------------
(* The page reads of IndexBinaryTreeFile: the calls of _ReadPage that a    *)
(* call of GetFirstMappedPage, GetRootPage or GetMappedPage makes.         *)

\* _GetPage: one _ReadPage unless the page is behind the end of the file.
ReadsOfGetPage(file_size, page_number) ==
  IF GetPage(file_size, page_number).outcome = "page" THEN 1 ELSE 0

\* GetMappedPage
ReadsOfGetMappedPage(table, file_size, page_number) ==
  IF GetMappedPage(table, file_size, page_number).outcome = "page" THEN 1 ELSE 0

ReadsOfGetFirstMappedPage_NoCache(table, file_size, cached) ==
  IF Len(table) = 0 THEN 0
  ELSE ReadsOfGetPage(file_size, table[1])

\* GetFirstMappedPage: none when self._first_mapped_page is set.
ReadsOfGetFirstMappedPage(table, file_size, cached) ==
  IF cached # NoPage THEN 0
  ELSE IF Len(table) = 0 THEN 0
  ELSE ReadsOfGetPage(file_size, table[1])

\* GetRootPage: none when self._root_page is set, else those of
\* GetFirstMappedPage and the one of the root page.
ReadsOfGetRootPage(pages, table, file_size, cached_first, cached_root) ==
  IF cached_root # NoPage THEN 0
  ELSE
    LET first == GetFirstMappedPage(pages, table, file_size, cached_first)
    IN  ReadsOfGetFirstMappedPage(table, file_size, cached_first)
          + (IF first.outcome = "page"
                  /\ first.page.root_page_number < Len(table)
               THEN ReadsOfGetPage(file_size,
                                   table[first.page.root_page_number + 1])
               ELSE 0)

-----------------------------------------------------------------------------
(* Specification SpecAccess: GetFirstMappedPage, GetRootPage and           *)
(* GetMappedPage called in any order on one IndexBinaryTreeFile.           *)

\* Calls made on one IndexBinaryTreeFile.
MaxAccesses == 3

\* The generated Index.btr files: those of SpecKeys whose pages 1 and 2
\* have no keys and no sub pages.
AccessFiles ==
  {f \in IndexFiles : \A p \in 1..2 : f[p].keys = <<>> /\ f[p].entries = <<0>>}

AccessIdle == acalls = <<>>

InitAccess ==
  /\ ipages \in AccessFiles
  /\ ifile_size \in IndexFileSizes
  /\ imappings \in IndexMappings
  /\ first_mapped_page = NoPage
  /\ root_page = NoPage
  /\ kstack = <<>>
  /\ yielded = <<>>
  /\ kstate = "idle"
  /\ acalls = <<>>

\* What a call leaves: the fields of the file before it, the reads it
\* made and what it returned or raised.
Access(call, page_number, reads, result) ==
  [call |-> call, page_number |-> page_number,
   first_mapped_page |-> first_mapped_page, root_page |-> root_page,
   reads |-> reads, result |-> result]

\* index_binary_tree_file.GetFirstMappedPage()
CallGetFirstMappedPage ==
  /\ Len(acalls) < MaxAccesses
  /\ LET r == GetFirstMappedPage(ipages, imappings, ifile_size,
                                 first_mapped_page)
     IN  /\ first_mapped_page' = IF r.outcome = "page" THEN r
                                 ELSE first_mapped_page
         /\ acalls' = Append(acalls,
              Access("GetFirstMappedPage", 0,
                     ReadsOfGetFirstMappedPage(imappings, ifile_size,
                                               first_mapped_page), r))
  /\ UNCHANGED <<ipages, ifile_size, imappings, root_page, kstack, yielded,
                 kstate>>
  /\ UNCHANGED notAccessVars

\* index_binary_tree_file.GetRootPage()
CallGetRootPage ==
  /\ Len(acalls) < MaxAccesses
  /\ LET r == GetRootPage(ipages, imappings, ifile_size, first_mapped_page,
                          root_page)
     IN  /\ first_mapped_page' = r.first
         /\ root_page' = IF r.root.outcome = "page" THEN r.root ELSE root_page
         /\ acalls' = Append(acalls,
              Access("GetRootPage", 0,
                     ReadsOfGetRootPage(ipages, imappings, ifile_size,
                                        first_mapped_page, root_page),
                     r.root))
  /\ UNCHANGED <<ipages, ifile_size, imappings, kstack, yielded, kstate>>
  /\ UNCHANGED notAccessVars

\* index_binary_tree_file.GetMappedPage(page_number)
CallGetMappedPage ==
  /\ Len(acalls) < MaxAccesses
  /\ \E page_number \in 0..3 :
       acalls' = Append(acalls,
         Access("GetMappedPage", page_number,
                ReadsOfGetMappedPage(imappings, ifile_size, page_number),
                IndexGetMappedPage(ipages, imappings, ifile_size,
                                   page_number)))
  /\ UNCHANGED <<ipages, ifile_size, imappings, first_mapped_page, root_page,
                 kstack, yielded, kstate>>
  /\ UNCHANGED notAccessVars

NextAccess == CallGetFirstMappedPage \/ CallGetRootPage \/ CallGetMappedPage

-----------------------------------------------------------------------------
(* GetObjectRecordByKey with the position of the file object of            *)
(* Objects.data, which every call leaves where its last read ended.        *)

SeekSet_Stay(pos, file_offset) == pos

\* file_object.seek(file_offset, os.SEEK_SET)
SeekSet(pos, file_offset) == file_offset

\* file_object.read(size) at position pos: the bytes read, none behind the
\* end of the file; see ReadObjectRecordData for a negative size.
ReadAt(file_size, pos, size, negative_read) ==
  LET rest == IF pos >= file_size THEN 0 ELSE file_size - pos
  IN  IF size >= 0 THEN [outcome |-> "data", length |-> Min(size, rest)]
      ELSE IF size = -1 \/ negative_read = "to the end"
        THEN [outcome |-> "data", length |-> rest]
      ELSE [outcome |-> "ValueError", length |-> 0]

\* ObjectsDataPage.ReadPage: the seek to file_offset, and unless the page
\* is a data page the descriptors, read one after the other up to the
\* empty one.
ReadObjectsPageAt(pages, file_size, pos, file_offset, data_page) ==
  LET sought == SeekSet(pos, file_offset)
      page == ReadObjectsPage(pages, file_size, file_offset, data_page)
  IN  [page |-> page,
       pos |-> IF data_page THEN sought
               ELSE IF page.outcome = "ParseError" THEN file_size
               ELSE sought + (Len(page.object_descriptors) + 1)
                               * OBJECT_DESCRIPTOR_SIZE]

\* ObjectsDataPage.ReadObjectRecordData: the seek to the page offset plus
\* data_offset, and the read of the smaller of size and what is left of
\* the page.
ReadObjectRecordDataAt(file_size, pos, page_offset, data_offset, size, negative_read) ==
  LET sought == SeekSet(pos, page_offset + data_offset)
      available_page_size == PAGE_SIZE - data_offset
      read_size == IF size > available_page_size
                     THEN available_page_size ELSE size
      read == ReadAt(file_size, sought, read_size, negative_read)
  IN  [outcome |-> read.outcome, segment |-> <<sought, read.length>>,
       pos |-> sought + read.length]

RECURSIVE ReadDataSegments(_, _, _, _)
\* The loop of GetObjectRecordByKey, "while data_size > 0", from the
\* locals l and the position pos.
ReadDataSegments(file, l, pos, negative_read) ==
  IF l.data_size <= 0
    THEN [outcome |-> "record", data |-> l.data_segments, pos |-> pos]
  ELSE
    LET mapped == GetMappedPage(file.mappings, file.file_size, l.page_number)
        read == ReadObjectsPageAt(file.pages, file.file_size, pos,
                                  mapped.page_offset, l.data_page)
        object_descriptor ==
          GetObjectDescriptor(read.page.object_descriptors,
                              l.record_identifier, l.data_size)
        data_offset == IF l.data_page THEN 0
                       ELSE object_descriptor.descriptor.data_offset
        data_segment == ReadObjectRecordDataAt(file.file_size, read.pos,
                                               mapped.page_offset, data_offset,
                                               l.data_size, negative_read)
        failed(outcome, at) == [outcome |-> outcome, data |-> <<>>, pos |-> at]
    IN  IF mapped.outcome # "page" THEN failed(mapped.outcome, pos)
        ELSE IF read.page.outcome # "page"
          THEN failed(read.page.outcome, read.pos)
        ELSE IF ~l.data_page /\ object_descriptor = NoDescriptor
          THEN failed("AttributeError", read.pos)
        ELSE IF data_segment.outcome # "data"
          THEN failed(data_segment.outcome, data_segment.pos)
        ELSE IF data_segment.segment[2] = 0
          THEN failed("None", data_segment.pos)
        ELSE ReadDataSegments(file,
               [l EXCEPT !.data_page = TRUE,
                         !.data_segments = Append(@, data_segment.segment),
                         !.data_size = @ - data_segment.segment[2],
                         !.page_number = @ + 1],
               data_segment.pos, negative_read)

\* ObjectsDataFile.GetObjectRecordByKey(key) on the file object at pos:
\* what it returns or raises, and where it leaves the file object.
ObjectRecordByKey(file, key, pos, negative_read) ==
  LET key_values == GetKeyValues(key)
      read == ReadDataSegments(file,
                [page_number |-> key_values.page_number,
                 record_identifier |-> key_values.record_identifier,
                 data_size |-> key_values.data_size,
                 data_page |-> FALSE, data_segments |-> <<>>],
                pos, negative_read)
  IN  IF key_values = NoKeyValues
        THEN [outcome |-> "TypeError", data_type |-> <<>>, data |-> <<>>,
              pos |-> pos]
        ELSE [outcome |-> read.outcome,
              data_type |-> IF read.outcome = "record"
                              THEN PartitionHead(key_values.name, "_")
                              ELSE <<>>,
              data |-> read.data, pos |-> read.pos]

-----------------------------------------------------------------------------
(* Specification SpecAgain: GetObjectRecordByKey called again and again    *)
(* on one opened Objects.data that does not change.                        *)

\* Calls made on one ObjectsDataFile.
MaxLookups == 3

\* The keys of the calls: two records of the first mapped page, one of
\* the second, and a key that is not accepted.
AgainKeys ==
  {KeyOf(<< <<"N", "S">> >>, << <<"C", "D", "_", "x">>, <<"0">>, <<"1">>, <<"1">> >>),
   KeyOf(<< <<"N", "S">> >>,
         << <<"R", "_", "x">>, <<"0">>, <<"1">>, <<"8", "1", "6", "1">> >>),
   KeyOf(<< <<"N", "S">> >>, << <<"I", "_", "x">>, <<"1">>, <<"1">>, <<"1">> >>),
   KeyOf(<<>>, << <<"C", "D", "_", "x">>, <<"0">>, <<"1">> >>)}

\* The descriptors of a page of the generated files: one descriptor, of
\* a record of one byte or of one byte more than the page has left, its
\* data within the page or beyond it.
AgainTables ==
  {table \in DescriptorTables :
     /\ Len(table) = 1
     /\ table[1].data_size \in {1, PAGE_SIZE - 32 + 1}
     /\ table[1].data_offset \in {32, PAGE_SIZE + 3}}

AgainIdle ==
  /\ dpos = 0
  /\ dnegative_read = "to the end"
  /\ dcalls = <<>>

\* ObjectsDataFile.Open returned: the file object is at the start.
InitAgain ==
  /\ \E table0 \in AgainTables, table1 \in AgainTables :
       opages = [p \in 0..1 |-> IF p = 0 THEN table0 ELSE table1]
  /\ ofile_size \in ObjectsFileSizes
  /\ omappings \in ObjectsMappings
  /\ rkey = <<>>
  /\ rstate = "idle"
  /\ rlocals = NoLocals
  /\ rfetched = <<>>
  /\ object_record = NoRecord
  /\ dpos = 0
  /\ dnegative_read \in {"to the end", "ValueError"}
  /\ dcalls = <<>>

\* objects_data_file.GetObjectRecordByKey(key)
CallGetObjectRecordByKey ==
  /\ Len(dcalls) < MaxLookups
  /\ \E key \in AgainKeys :
       LET r == ObjectRecordByKey([pages |-> opages, mappings |-> omappings,
                                   file_size |-> ofile_size],
                                  key, dpos, dnegative_read)
       IN  /\ dpos' = r.pos
           /\ dcalls' = Append(dcalls,
                [key |-> key, at |-> dpos, outcome |-> r.outcome,
                 data_type |-> r.data_type, data |-> r.data])
  /\ UNCHANGED <<dnegative_read, recVars>>
  /\ UNCHANGED notAgainVars

NextAgain == CallGetObjectRecordByKey

\* C24: two calls of GetObjectRecordByKey with the same key return the
\* same: the same data and data type when they return a record, whatever
\* calls were made in between and wherever they left the file object.
C24_SameKeySameRecord ==
  \A i, j \in 1..Len(dcalls) :
    dcalls[i].key = dcalls[j].key =>
      /\ dcalls[i].outcome = dcalls[j].outcome
      /\ dcalls[i].data_type = dcalls[j].data_type
      /\ dcalls[i].data = dcalls[j].data

C24_Witness ==
  /\ Len(dcalls) = 3
  /\ dcalls[1].key = dcalls[3].key
  /\ dcalls[2].key # dcalls[1].key
  /\ \A i \in 1..3 : dcalls[i].outcome = "record"
  /\ dcalls[3].at # dcalls[1].at
  /\ dcalls[3].at # dcalls[2].at
  /\ Len(dcalls[3].data) = 2

-----------------------------------------------------------------------------
(* Specification SpecTwice: ReadPage called again and again on one page    *)
(* object, of Index.btr or of Objects.data, or _ReadPage called again and  *)
(* again on the file.                                                      *)

\* The calls made in a behaviour.
MaxReads == 2

TwiceKinds ==
  {"IndexBinaryTreePage.ReadPage", "IndexBinaryTreeFile._ReadPage",
   "ObjectsDataPage.ReadPage", "ObjectsDataFile._ReadPage"}

\* The pages of PageDescriptions whose sub pages array holds 0 and 1 only.
TwicePageDescriptions ==
  {d \in PageDescriptions : \A i \in DOMAIN d.entries : d.entries[i] \in {0, 1}}

TwiceIdle ==
  /\ tkind = "none"
  /\ tnegative_read = "to the end"
  /\ tcalls = 0
  /\ tfirst = [outcome |-> "idle"]

\* The file is open and no page was read; the page object is made by the
\* first call.
InitTwice ==
  /\ tkind \in TwiceKinds
  /\ tnegative_read \in {"to the end", "ValueError"}
  /\ tcalls = 0
  /\ tfirst = [outcome |-> "new"]
  /\ IF tkind \in {"IndexBinaryTreePage.ReadPage", "IndexBinaryTreeFile._ReadPage"}
       THEN /\ pdesc \in TwicePageDescriptions
            /\ pbytes = PageBytes(pdesc)
            /\ pfile_size \in PageFileSizes(pbytes)
            /\ ppage = NoPageRead
            /\ DescIdle
       ELSE /\ InitDesc
            /\ PageIdle

\* page = IndexBinaryTreePage() and page.ReadPage(file_object, 0) by the
\* first call, page.ReadPage(file_object, 0) on the same object by the
\* later ones.
CallIndexPageReadPage ==
  /\ tkind = "IndexBinaryTreePage.ReadPage"
  /\ tcalls < MaxReads
  /\ ppage' = IF tcalls = 0
                THEN ReadPageOn(NewPageReader(0), pbytes, pfile_size, 0,
                                tnegative_read)
                ELSE ReadPageOn(ppage, pbytes, pfile_size, 0, tnegative_read)
  /\ tfirst' = IF tcalls = 0 THEN ppage' ELSE tfirst
  /\ tcalls' = tcalls + 1
  /\ UNCHANGED <<tkind, tnegative_read, pdesc, pbytes, pfile_size, descVars>>
  /\ UNCHANGED notTwiceVars

\* IndexBinaryTreeFile._ReadPage(0), the page it returns in ppage.
CallIndexFileReadPage ==
  /\ tkind = "IndexBinaryTreeFile._ReadPage"
  /\ tcalls < MaxReads
  /\ ppage' = ReadPage(pbytes, pfile_size, 0, tnegative_read)
  /\ tfirst' = IF tcalls = 0 THEN ppage' ELSE tfirst
  /\ tcalls' = tcalls + 1
  /\ UNCHANGED <<tkind, tnegative_read, pdesc, pbytes, pfile_size, descVars>>
  /\ UNCHANGED notTwiceVars

\* page = ObjectsDataPage() and page.ReadPage(file_object, file_offset,
\* data_page) by the first call, ReadPage on the same object by the later
\* ones.
CallObjectsPageReadPage ==
  /\ tkind = "ObjectsDataPage.ReadPage"
  /\ tcalls < MaxReads
  /\ opage' = ObjectsPageReadPageOn(IF tcalls = 0 THEN NewObjectsPage ELSE opage,
                                    oslots, oslots_size, ocall.file_offset,
                                    ocall.data_page)
  /\ tfirst' = IF tcalls = 0 THEN opage' ELSE tfirst
  /\ tcalls' = tcalls + 1
  /\ UNCHANGED <<tkind, tnegative_read, oslots, oslots_size, ocall, pageVars>>
  /\ UNCHANGED notTwiceVars

\* ObjectsDataFile._ReadPage(file_offset, data_page), the page it returns
\* in opage.
CallObjectsFileReadPage ==
  /\ tkind = "ObjectsDataFile._ReadPage"
  /\ tcalls < MaxReads
  /\ opage' = ObjectsPageReadPage(oslots, oslots_size, ocall.file_offset,
                                  ocall.data_page)
  /\ tfirst' = IF tcalls = 0 THEN opage' ELSE tfirst
  /\ tcalls' = tcalls + 1
  /\ UNCHANGED <<tkind, tnegative_read, oslots, oslots_size, ocall, pageVars>>
  /\ UNCHANGED notTwiceVars

NextTwice ==
  \/ CallIndexPageReadPage
  \/ CallIndexFileReadPage
  \/ CallObjectsPageReadPage
  \/ CallObjectsFileReadPage

(* Claims under SpecTwice *)

\* k times the sequence seq.
RECURSIVE Repeat(_, _)
Repeat(seq, k) == IF k = 0 THEN <<>> ELSE seq \o Repeat(seq, k - 1)

\* What an index page object holds of the page.
HeldByIndexPage(page) ==
  <<page.page_key_segments, page.page_values, page.sub_pages, page.keys>>

\* The first call decoded the page into a new page object.
FirstDecoded == tcalls >= 1 /\ tfirst.outcome = "page"

\* The page object in hand holds the page as the first call decoded it.
EqualsDecodedPage ==
  IF tkind \in {"IndexBinaryTreePage.ReadPage", "IndexBinaryTreeFile._ReadPage"}
    THEN /\ ppage.outcome = "page"
         /\ HeldByIndexPage(ppage) = HeldByIndexPage(tfirst)
    ELSE /\ opage.outcome = "page"
         /\ opage.object_descriptors = tfirst.object_descriptors

\* The first call decoded nothing that a page object keeps in a list.
NothingToAppend ==
  IF tkind = "IndexBinaryTreePage.ReadPage"
    THEN HeldByIndexPage(tfirst) = <<<<>>, <<>>, <<>>, <<>>>>
    ELSE tfirst.object_descriptors = <<>>

\* C30 as stated: after a second ReadPage on a page object keys has twice
\* number_of_keys entries, and a page object equals the decoded page only
\* if ReadPage was called on it exactly once.
C30_DecodedOnlyIfReadOnce ==
  /\ (tkind = "IndexBinaryTreePage.ReadPage" /\ tcalls = 2 /\ FirstDecoded)
       => Len(ppage.keys) = 2 * ppage.number_of_keys
  /\ (tkind \in {"IndexBinaryTreePage.ReadPage", "ObjectsDataPage.ReadPage"}
        /\ FirstDecoded /\ EqualsDecodedPage)
       => tcalls = 1

\* C30: every ReadPage on a page object after one that decoded the page
\* decodes it again and appends: after k calls the key segment list, the
\* value table, sub_pages and keys of an index page, and the descriptors of
\* an objects page, are k times those of the first call.  The page object
\* then equals the decoded page only if the first call had nothing to
\* append (no page key, value, sub page number or descriptor; a data page).
\* _ReadPage of either file returns the decoded page at every call.
C30_CallsAppend ==
  FirstDecoded =>
    /\ tkind = "IndexBinaryTreePage.ReadPage" =>
         /\ ppage.outcome = "page"
         /\ ppage.page_key_segments = Repeat(tfirst.page_key_segments, tcalls)
         /\ ppage.page_values = Repeat(tfirst.page_values, tcalls)
         /\ ppage.sub_pages = Repeat(tfirst.sub_pages, tcalls)
         /\ ppage.keys = Repeat(tfirst.keys, tcalls)
         /\ ppage.number_of_keys = tfirst.number_of_keys
    /\ tkind = "ObjectsDataPage.ReadPage" =>
         /\ opage.outcome = "page"
         /\ opage.object_descriptors = Repeat(tfirst.object_descriptors, tcalls)
    /\ tkind \in {"IndexBinaryTreePage.ReadPage", "ObjectsDataPage.ReadPage"} =>
         (EqualsDecodedPage <=> (tcalls = 1 \/ NothingToAppend))
    /\ tkind = "IndexBinaryTreeFile._ReadPage" => ppage = tfirst
    /\ tkind = "ObjectsDataFile._ReadPage" => opage = tfirst

\* A page of two keys, two values and a sub page was read twice into one
\* page object, which holds four keys.
C30_Witness ==
  /\ tkind = "IndexBinaryTreePage.ReadPage"
  /\ tcalls = 2
  /\ FirstDecoded
  /\ ppage.number_of_keys = 2
  /\ Len(ppage.keys) = 4
  /\ Len(ppage.page_values) = 4
  /\ ppage.sub_pages = <<1, 1>>

\* Two descriptors were read twice into one objects page object.
C30_WitnessDescriptors ==
  /\ tkind = "ObjectsDataPage.ReadPage"
  /\ tcalls = 2
  /\ FirstDecoded
  /\ Len(tfirst.object_descriptors) = 2
  /\ Len(opage.object_descriptors) = 4

\* _ReadPage called twice returned the page of two keys both times.
C30_WitnessNewPagePerRead ==
  /\ tkind = "IndexBinaryTreeFile._ReadPage"
  /\ tcalls = 2
  /\ FirstDecoded
  /\ Len(ppage.keys) = 2

-----------------------------------------------------------------------------
(* Specifications *)

InitSpecMap ==
  /\ InitMap
  /\ KeysIdle /\ KeyIdle /\ RecIdle /\ PageIdle
  /\ DescIdle /\ ReadIdle /\ CloseIdle /\ GlobIdle
  /\ AccessIdle /\ AgainIdle /\ TwiceIdle

SpecMap == InitSpecMap /\ [][NextMap]_vars

InitSpecKeys ==
  /\ InitKeys
  /\ MapIdle /\ KeyIdle /\ RecIdle /\ PageIdle
  /\ DescIdle /\ ReadIdle /\ CloseIdle /\ GlobIdle
  /\ AccessIdle /\ AgainIdle /\ TwiceIdle

SpecKeys == InitSpecKeys /\ [][NextKeys]_vars

InitSpecKey ==
  /\ InitKey
  /\ MapIdle /\ KeysIdle /\ RecIdle /\ PageIdle
  /\ DescIdle /\ ReadIdle /\ CloseIdle /\ GlobIdle
  /\ AccessIdle /\ AgainIdle /\ TwiceIdle

SpecKey == InitSpecKey /\ [][NextKey]_vars

InitSpecRec ==
  /\ InitRec
  /\ MapIdle /\ KeysIdle /\ KeyIdle /\ PageIdle
  /\ DescIdle /\ ReadIdle /\ CloseIdle /\ GlobIdle
  /\ AccessIdle /\ AgainIdle /\ TwiceIdle

SpecRec == InitSpecRec /\ [][NextRec]_vars

InitSpecPage ==
  /\ InitPage
  /\ MapIdle /\ KeysIdle /\ KeyIdle /\ RecIdle
  /\ DescIdle /\ ReadIdle /\ CloseIdle /\ GlobIdle
  /\ AccessIdle /\ AgainIdle /\ TwiceIdle

SpecPage == InitSpecPage /\ [][NextPage]_vars

InitSpecDesc ==
  /\ InitDesc
  /\ MapIdle /\ KeysIdle /\ KeyIdle /\ RecIdle
  /\ PageIdle /\ ReadIdle /\ CloseIdle /\ GlobIdle
  /\ AccessIdle /\ AgainIdle /\ TwiceIdle

SpecDesc == InitSpecDesc /\ [][NextDesc]_vars

InitSpecRead ==
  /\ InitRead
  /\ MapIdle /\ KeysIdle /\ KeyIdle /\ RecIdle
  /\ PageIdle /\ DescIdle /\ CloseIdle /\ GlobIdle
  /\ AccessIdle /\ AgainIdle /\ TwiceIdle

SpecRead == InitSpecRead /\ [][NextRead]_vars

InitSpecClose ==
  /\ InitClose
  /\ MapIdle /\ KeysIdle /\ KeyIdle /\ RecIdle
  /\ PageIdle /\ DescIdle /\ ReadIdle /\ GlobIdle
  /\ AccessIdle /\ AgainIdle /\ TwiceIdle

SpecClose == InitSpecClose /\ [][NextClose]_vars

InitSpecGlob ==
  /\ InitGlob
  /\ MapIdle /\ KeysIdle /\ KeyIdle /\ RecIdle
  /\ PageIdle /\ DescIdle /\ ReadIdle /\ CloseIdle
  /\ AccessIdle /\ AgainIdle /\ TwiceIdle

SpecGlob == InitSpecGlob /\ [][NextGlob]_vars

InitSpecAccess ==
  /\ InitAccess
  /\ MapIdle /\ KeyIdle /\ RecIdle /\ PageIdle
  /\ DescIdle /\ ReadIdle /\ CloseIdle /\ GlobIdle
  /\ AgainIdle /\ TwiceIdle

SpecAccess == InitSpecAccess /\ [][NextAccess]_vars

InitSpecAgain ==
  /\ InitAgain
  /\ MapIdle /\ KeysIdle /\ KeyIdle /\ PageIdle
  /\ DescIdle /\ ReadIdle /\ CloseIdle /\ GlobIdle
  /\ AccessIdle /\ TwiceIdle

SpecAgain == InitSpecAgain /\ [][NextAgain]_vars

InitSpecTwice ==
  /\ InitTwice
  /\ MapIdle /\ KeysIdle /\ KeyIdle /\ RecIdle
  /\ ReadIdle /\ CloseIdle /\ GlobIdle /\ AccessIdle
  /\ AgainIdle

SpecTwice == InitSpecTwice /\ [][NextTwice]_vars

=========================================================================
